---------------------------- MODULE Spec2Model ----------------------------
(***************************************************************************)
(* A model of the SURF content acquisition and normalisation engine:       *)
(* the read operation (read_url -> WebFetcher.fetch_url -> HTMLCleaner /   *)
(* extract_text_content) and the search operation (search ->               *)
(* SearchClientFactory.get_client -> one of the three adapters).           *)
(*                                                                         *)
(* Text is modelled as a sequence of runs [c |-> symbol, n |-> count]: a   *)
(* symbol is one unit of the text (a character, or an indivisible piece    *)
(* of markup such as "<title>"), and n is how often it is repeated, so a   *)
(* text longer than a slice limit of the program can be written down.      *)
(***************************************************************************)
EXTENDS Integers, Sequences, FiniteSets, TLC

(***************************************************************************)
(* Text primitives (Python str operations used by the program).            *)
(***************************************************************************)
Whitespace == {" ", "\n"}

\* The text made of the given symbols, each once.
Text(symbols) == [i \in 1..Len(symbols) |-> [c |-> symbols[i], n |-> 1]]

\* The text made of one symbol repeated n times.
Rep(sym, n) == IF n = 0 THEN <<>> ELSE <<[c |-> sym, n |-> n]>>

RECURSIVE StrLen(_)
StrLen(s) == IF s = <<>> THEN 0 ELSE Head(s).n + StrLen(Tail(s))

\* s[:k]
RECURSIVE Take(_, _)
Take(s, k) ==
    IF s = <<>> \/ k <= 0 THEN <<>>
    ELSE IF Head(s).n <= k THEN <<Head(s)>> \o Take(Tail(s), k - Head(s).n)
    ELSE <<[c |-> Head(s).c, n |-> k]>>

RECURSIVE LStrip(_)
LStrip(s) ==
    IF s = <<>> THEN <<>>
    ELSE IF Head(s).c \in Whitespace THEN LStrip(Tail(s)) ELSE s

RECURSIVE RStrip(_)
RStrip(s) ==
    IF s = <<>> THEN <<>>
    ELSE IF s[Len(s)].c \in Whitespace THEN RStrip(SubSeq(s, 1, Len(s) - 1)) ELSE s

\* str.strip()
Strip(s) == RStrip(LStrip(s))

\* str.split('\n'): the lines of s, one more than it has newlines.
RECURSIVE SplitLinesAcc(_, _, _)
SplitLinesAcc(s, cur, acc) ==
    IF s = <<>> THEN Append(acc, cur)
    ELSE IF Head(s).c = "\n"
         THEN SplitLinesAcc(Rep("\n", Head(s).n - 1) \o Tail(s), <<>>, Append(acc, cur))
         ELSE SplitLinesAcc(Tail(s), Append(cur, Head(s)), acc)

SplitLines(s) == SplitLinesAcc(s, <<>>, <<>>)

\* The index of the first run of s whose symbol is sym, or 0.
RECURSIVE IndexFrom(_, _, _)
IndexFrom(s, sym, i) ==
    IF i > Len(s) THEN 0
    ELSE IF s[i].c = sym THEN i ELSE IndexFrom(s, sym, i + 1)

IndexOf(s, sym) == IndexFrom(s, sym, 1)

\* The symbol of a code fence (three backquotes).
Fence == "[fence]"


\* Adjacent runs of one symbol merged (the same text, written canonically).
RECURSIVE Norm(_)
Norm(s) ==
    IF Len(s) < 2 THEN s
    ELSE IF s[1].c = s[2].c
         THEN Norm(<<[c |-> s[1].c, n |-> s[1].n + s[2].n]>> \o SubSeq(s, 3, Len(s)))
         ELSE <<s[1]>> \o Norm(Tail(s))

(***************************************************************************)
(* Exceptions.  A computation yields Ok(v) or Raise(e); Parent is the      *)
(* base class of each exception class the program can meet.                *)
(***************************************************************************)
Ok(v) == [ok |-> TRUE, val |-> v]
Raise(e) == [ok |-> FALSE, exc |-> e]

Parent ==
    [ClientResponseError |-> "ClientError",
     ContentTypeError |-> "ClientResponseError",
     ClientConnectorError |-> "ClientConnectionError",
     ServerTimeoutError |-> "ClientConnectionError",
     ClientConnectionError |-> "ClientError",
     ClientPayloadError |-> "ClientError",
     InvalidURL |-> "ClientError",
     ClientError |-> "Exception",
     TimeoutError |-> "Exception",
     ValueError |-> "Exception",
     UnicodeDecodeError |-> "ValueError",
     JSONDecodeError |-> "ValueError",
     RecursionError |-> "Exception",
     AttributeError |-> "Exception",
     TypeError |-> "Exception",
     HTTPException |-> "Exception",
     Exception |-> "BaseException"]

\* issubclass(e, c)
RECURSIVE IsSubclass(_, _)
IsSubclass(e, c) ==
    \/ e = c
    \/ e \in DOMAIN Parent /\ IsSubclass(Parent[e], c)

(***************************************************************************)
(* HTMLCleaner (src/app/utils/html_parser.py).  The parsed tree is the     *)
(* text itself, an element being the runs between its opening and its      *)
(* closing symbol.                                                         *)
(***************************************************************************)
\* The elements clean_html removes, each by its opening and closing symbol;
\* <source> is a void element and has no closing symbol.
RemovedElements ==
    <<[open |-> "<script>", close |-> "</script>"],
      [open |-> "<style>", close |-> "</style>"],
      [open |-> "<svg>", close |-> "</svg>"],
      [open |-> "<iframe>", close |-> "</iframe>"],
      [open |-> "<form>", close |-> "</form>"],
      [open |-> "<noscript>", close |-> "</noscript>"],
      [open |-> "<canvas>", close |-> "</canvas>"],
      [open |-> "<video>", close |-> "</video>"],
      [open |-> "<audio>", close |-> "</audio>"]>>

VoidRemoved == {"<source>"}

Tags ==
    {"<title>", "</title>", "<h1>", "</h1>", "<body>", "</body>", "<p>", "</p>",
     "<div>", "</div>", "<table>", "</table>", "<thead>", "</thead>",
     "<tr>", "</tr>", "<th>", "</th>", "<td>", "</td>",
     "<pre>", "</pre>", "<b>", "</b>", "<br/>"}
    \cup {RemovedElements[i].open : i \in 1..Len(RemovedElements)}
    \cup {RemovedElements[i].close : i \in 1..Len(RemovedElements)}
    \cup VoidRemoved

\* soup.find(name): the first element of that name, <<el>>, or <<>> for None.
FindElement(s, open, close) ==
    LET i == IndexOf(s, open)
        j == IF i = 0 THEN 0 ELSE IndexFrom(s, close, i + 1)
    IN  IF i = 0 THEN <<>>
        ELSE <<[inner |-> SubSeq(s, i + 1, IF j = 0 THEN Len(s) ELSE j - 1)]>>

\* Tag.string: the element's only child when that is a string, <<text>>,
\* else <<>> for None.
ElementString(el) ==
    IF el.inner = <<>> \/ \E i \in 1..Len(el.inner) : el.inner[i].c \in Tags
    THEN <<>>
    ELSE <<el.inner>>

\* Tag.get_text(): the text below the element, markup left out.
GetText(el) == SelectSeq(el.inner, LAMBDA r : r.c \notin Tags)

\* element.decompose() for every element of one name.
RECURSIVE RemoveElements(_, _, _)
RemoveElements(s, open, close) ==
    LET i == IndexOf(s, open)
        j == IF i = 0 THEN 0 ELSE IndexFrom(s, close, i + 1)
    IN  IF i = 0 THEN s
        ELSE SubSeq(s, 1, i - 1)
             \o RemoveElements(SubSeq(s, (IF j = 0 THEN Len(s) ELSE j) + 1, Len(s)),
                               open, close)

\* decompose() for each of the names of the list, one after the other.
RECURSIVE RemoveAll(_, _)
RemoveAll(s, elements) ==
    IF elements = <<>> THEN SelectSeq(s, LAMBDA r : r.c \notin VoidRemoved)
    ELSE RemoveAll(RemoveElements(s, Head(elements).open, Head(elements).close),
                   Tail(elements))

\* A comment is the runs from "<!--" to the next "-->"; the text of the
\* comment node is what lies between them.  The filter of find_all selects
\* the strings whose text contains '<!--', and those are extracted.
RECURSIVE RemoveComments(_)
RemoveComments(s) ==
    LET i == IndexOf(s, "<!--")
        j == IF i = 0 THEN 0 ELSE IndexFrom(s, "-->", i + 1)
    IN  IF i = 0 \/ j = 0 THEN s
        ELSE (IF \E k \in (i + 1)..(j - 1) : s[k].c = "<!--"
              THEN SubSeq(s, 1, i - 1)
              ELSE SubSeq(s, 1, j))
             \o RemoveComments(SubSeq(s, j + 1, Len(s)))

clean_html(html_content) == RemoveComments(RemoveAll(html_content, RemovedElements))

\* A Tag is truthy whatever it holds, so `if soup.title:` asks only whether
\* the element exists; .string of an element without a child is None, and
\* None.strip() raises AttributeError.
extract_title(soup) ==
    LET title == FindElement(soup, "<title>", "</title>")
        h1 == FindElement(soup, "<h1>", "</h1>")
    IN  IF title # <<>>
        THEN IF ElementString(title[1]) = <<>>
             THEN Raise("AttributeError")
             ELSE Ok(Strip(ElementString(title[1])[1]))
        ELSE IF h1 # <<>> THEN Ok(Strip(GetText(h1[1])))
        ELSE Ok(Text(<<"No title found">>))

\* re.sub(r'\s+', ' ', text).strip()
RECURSIVE CollapseSpace(_)
CollapseSpace(s) ==
    IF s = <<>> THEN <<>>
    ELSE IF Head(s).c \in Whitespace
         THEN <<[c |-> " ", n |-> 1]>> \o CollapseSpace(LStrip(s))
         ELSE <<Head(s)>> \o CollapseSpace(Tail(s))

clean_text(text) == Strip(CollapseSpace(text))

\* re.sub('<h1[^>]*>(.*?)</h1>', '# ' + _clean_text(inner) + '\n\n', ...)
RECURSIVE ConvertHeadings(_)
ConvertHeadings(s) ==
    LET i == IndexOf(s, "<h1>")
        j == IF i = 0 THEN 0 ELSE IndexFrom(s, "</h1>", i + 1)
    IN  IF j = 0 THEN s
        ELSE SubSeq(s, 1, i - 1)
             \o Text(<<"#", " ">>) \o clean_text(SubSeq(s, i + 1, j - 1))
             \o Rep("\n", 2)
             \o ConvertHeadings(SubSeq(s, j + 1, Len(s)))

\* re.sub(r'<[^>]+>', '', ...): a tag is one symbol; a comment is matched
\* from its "<!--" up to the first '>' after it, which is the '>' of a
\* symbol that ends with one, inside the comment or at its end.
RECURSIVE StripTags(_)
StripTags(s) ==
    IF s = <<>> THEN <<>>
    ELSE IF Head(s).c \in Tags THEN StripTags(Tail(s))
    ELSE IF Head(s).c = "<!--"
    THEN LET ends == {k \in 2..Len(s) : s[k].c \in Tags \cup {">", "-->"}}
         IN  IF ends = {} THEN <<Head(s)>> \o StripTags(Tail(s))
             ELSE LET j == CHOOSE k \in ends : \A m \in ends : k <= m
                  IN  StripTags(Rep(s[j].c, s[j].n - 1) \o SubSeq(s, j + 1, Len(s)))
    ELSE <<Head(s)>> \o StripTags(Tail(s))

\* re.sub(r'\n{3,}', '\n\n', ...)
CollapseNewlines(s) ==
    LET t == Norm(s)
    IN  [i \in 1..Len(t) |->
            IF t[i].c = "\n" /\ t[i].n >= 3 THEN [c |-> "\n", n |-> 2] ELSE t[i]]

\* What an opening tag holds between its '<' and its '>', letter by
\* letter; <<>> for a symbol that is not an opening tag.
TagText(sym) ==
    CASE sym = "<p>" -> <<"p">>
      [] sym = "<pre>" -> <<"p", "r", "e">>
      [] sym = "<b>" -> <<"b">>
      [] sym = "<body>" -> <<"b", "o", "d", "y">>
      [] sym = "<br/>" -> <<"b", "r", "/">>
      [] sym = "<title>" -> <<"t", "i", "t", "l", "e">>
      [] sym = "<h1>" -> <<"h", "1">>
      [] sym = "<div>" -> <<"d", "i", "v">>
      [] sym = "<table>" -> <<"t", "a", "b", "l", "e">>
      [] sym = "<thead>" -> <<"t", "h", "e", "a", "d">>
      [] sym = "<tr>" -> <<"t", "r">>
      [] sym = "<th>" -> <<"t", "h">>
      [] sym = "<td>" -> <<"t", "d">>
      [] OTHER -> <<>>

IsPrefix(p, t) == Len(p) <= Len(t) /\ SubSeq(t, 1, Len(p)) = p

\* The opening tags the pattern '<name[^>]*>' matches: '[^>]*' takes
\* whatever follows the name up to the '>'.
Openings(name) == {sym \in Tags : IsPrefix(name, TagText(sym))}

\* re.sub('<name[^>]*>(.*?)</name>', before + _clean_text(inner) + after,
\* ..., flags=re.DOTALL): the leftmost opening that has a closing tag after
\* it is matched up to the first such closing tag; the search goes on
\* behind the match.
RECURSIVE ConvertElement(_, _, _, _, _)
ConvertElement(s, opens, close, before, after) ==
    LET starts == {i \in 1..Len(s) : s[i].c \in opens /\ IndexFrom(s, close, i + 1) # 0}
    IN  IF starts = {} THEN s
        ELSE LET i == CHOOSE k \in starts : \A m \in starts : k <= m
                 j == IndexFrom(s, close, i + 1)
             IN  SubSeq(s, 1, i - 1)
                 \o before \o clean_text(SubSeq(s, i + 1, j - 1)) \o after
                 \o ConvertElement(SubSeq(s, j + 1, Len(s)), opens, close, before, after)

\* re.sub(r'<p[^>]*>(.*?)</p>', _clean_text(inner) + '\n\n', ...)
ConvertParagraphs(s) ==
    ConvertElement(s, Openings(<<"p">>), "</p>", <<>>, Rep("\n", 2))

\* re.sub(r'<pre[^>]*>(.*?)</pre>', fence + '\n' + _clean_text(inner) + '\n'
\* + fence + '\n\n', ...)
ConvertPre(s) ==
    ConvertElement(s, Openings(<<"p", "r", "e">>), "</pre>",
                   Text(<<Fence, "\n">>), Text(<<"\n", Fence>>) \o Rep("\n", 2))

\* re.sub(r'<(strong|b)[^>]*>(.*?)</\1>', '**' + _clean_text(inner) + '**',
\* ...), for its alternative b.
ConvertBold(s) ==
    ConvertElement(s, Openings(<<"b">>), "</b>", Text(<<"**">>), Text(<<"**">>))

convert_content(html_content) ==
    CollapseNewlines(StripTags(ConvertBold(ConvertPre(ConvertParagraphs(
        ConvertHeadings(html_content))))))

\* find_all(name): the elements of that name in document order, each given
\* by the runs between its opening and its closing symbol.
RECURSIVE FindAll(_, _, _)
FindAll(s, open, close) ==
    LET i == IndexOf(s, open)
        j == IF i = 0 THEN 0 ELSE IndexFrom(s, close, i + 1)
        last == IF j = 0 THEN Len(s) ELSE j
    IN  IF i = 0 THEN <<>>
        ELSE <<SubSeq(s, i + 1, IF j = 0 THEN Len(s) ELSE j - 1)>>
             \o FindAll(SubSeq(s, last + 1, Len(s)), open, close)

TH == [open |-> "<th>", close |-> "</th>"]
TD == [open |-> "<td>", close |-> "</td>"]

\* find_all(['th', 'td']) and find_all(['th']): the cells of the given kinds
\* in document order.
RECURSIVE FindCells(_, _)
FindCells(s, kinds) ==
    LET starts == {k \in 1..Len(s) : \E e \in kinds : s[k].c = e.open}
    IN  IF starts = {} THEN <<>>
        ELSE LET i == CHOOSE k \in starts : \A m \in starts : k <= m
                 e == CHOOSE e \in kinds : e.open = s[i].c
                 j == IndexFrom(s, e.close, i + 1)
                 last == IF j = 0 THEN Len(s) ELSE j
             IN  <<SubSeq(s, i + 1, IF j = 0 THEN Len(s) ELSE j - 1)>>
                 \o FindCells(SubSeq(s, last + 1, Len(s)), kinds)

\* [cell.get_text().strip() for cell in ...]
CellTexts(cells) == [i \in 1..Len(cells) |-> Strip(GetText([inner |-> cells[i]]))]

\* sep.join(texts)
RECURSIVE Join(_, _)
Join(texts, sep) ==
    IF texts = <<>> THEN <<>>
    ELSE IF Len(texts) = 1 THEN texts[1]
    ELSE texts[1] \o Text(<<sep>>) \o Join(Tail(texts), sep)

\* '| ' + ' | '.join(cells) + ' |'
md_line(cells) == Text(<<"| ">>) \o Join(cells, " | ") \o Text(<<" |">>)

\* ['---' for _ in headers]
separator_cells_short(headers) == [i \in 1..(Len(headers) - 1) |-> Text(<<"---">>)]

separator_cells(headers) == [i \in 1..Len(headers) |-> Text(<<"---">>)]

\* The body rows of markdown_table: every <tr> of the table except those
\* the skip test takes out.  `tr == header_row` compares a <tr> with the
\* <thead> element or with None and is never true; `tr == table.find('tr')`
\* is equality of content, true of every row that reads like the first.
RECURSIVE body_lines(_, _, _)
body_lines(rows, first_row, has_thead) ==
    IF rows = <<>> THEN <<>>
    ELSE LET tr == Head(rows)
             skip == ~has_thead /\ tr = first_row /\ FindCells(tr, {TH}) # <<>>
             row_data == CellTexts(FindCells(tr, {TD, TH}))
         IN  (IF skip \/ row_data = <<>> THEN <<>> ELSE <<md_line(row_data)>>)
             \o body_lines(Tail(rows), first_row, has_thead)

\* markdown_table of one table: the header line and the separator line when
\* there are headers, then the body rows.
markdown_table(table) ==
    LET header_row == FindElement(table, "<thead>", "</thead>")
        rows == FindAll(table, "<tr>", "</tr>")
        headers == IF header_row # <<>>
                   THEN CellTexts(FindCells(header_row[1].inner, {TH}))
                   ELSE IF rows # <<>>
                   THEN CellTexts(FindCells(rows[1], {TH, TD}))
                   ELSE <<>>
    IN  (IF headers # <<>>
         THEN <<md_line(headers), md_line(separator_cells(headers))>>
         ELSE <<>>)
        \o body_lines(rows, IF rows # <<>> THEN rows[1] ELSE <<>>, header_row # <<>>)

\* _convert_tables: each table that gives lines is replaced by a <div> that
\* holds them joined by newlines; a table that gives none is left as it is.
RECURSIVE convert_tables(_)
convert_tables(content) ==
    LET i == IndexOf(content, "<table>")
        j == IF i = 0 THEN 0 ELSE IndexFrom(content, "</table>", i + 1)
        last == IF j = 0 THEN Len(content) ELSE j
        lines == markdown_table(SubSeq(content, i + 1, IF j = 0 THEN last ELSE j - 1))
    IN  IF i = 0 THEN content
        ELSE SubSeq(content, 1, i - 1)
             \o (IF lines # <<>>
                 THEN Text(<<"<div>">>) \o Join(lines, "\n") \o Text(<<"</div>">>)
                 ELSE SubSeq(content, i, last))
             \o convert_tables(SubSeq(content, last + 1, Len(content)))

html_to_markdown(soup) ==
    LET body == FindElement(soup, "<body>", "</body>")
        main_content == IF body # <<>>
                        THEN Text(<<"<body>">>) \o body[1].inner \o Text(<<"</body>">>)
                        ELSE soup
    IN  Strip(convert_content(convert_tables(main_content)))

process_html(html_content, base_url) ==
    LET soup == clean_html(html_content)
        title == extract_title(soup)
    IN  IF ~title.ok THEN title
        ELSE Ok([title |-> title.val, url |-> base_url,
                 content |-> html_to_markdown(soup)])

(***************************************************************************)
(* Media types.  A media type (and a Content-Type header) is a sequence    *)
(* of symbols, the names the program looks for being single symbols: a     *)
(* name is a substring of the type exactly when it is one of its symbols,  *)
(* and is the whole type exactly when it is its only symbol.               *)
(***************************************************************************)
\* `name in content_type` (substring test)
Contains(content_type, name) ==
    \E i \in 1..Len(content_type) : content_type[i] = name

(***************************************************************************)
(* json.loads / json.dumps on the JSON documents of the model: an object   *)
(* of at most two members, the empty array and scalars.  A value is        *)
(* [t |-> "dict" | "list" | "scalar", items |-> ...].                      *)
(***************************************************************************)
JsonStrings == {"\"title\"", "\"name\"", "\"id\"", "\"key\"", "\"other\"", "\"X\""}
JsonScalars == JsonStrings \cup {"1", "null"}

\* The symbols of a text, when no symbol is repeated; else <<>>.
Symbols(s) ==
    IF \A i \in 1..Len(s) : s[i].n = 1 THEN [i \in 1..Len(s) |-> s[i].c] ELSE <<>>

json_loads(content) ==
    LET y == Symbols(Strip(content))
    IN  IF y = <<"{", "}">> THEN Ok([t |-> "dict", items |-> <<>>])
        ELSE IF /\ Len(y) = 5 /\ y[1] = "{" /\ y[2] \in JsonStrings /\ y[3] = ":"
                /\ y[4] \in JsonScalars /\ y[5] = "}"
        THEN Ok([t |-> "dict", items |-> <<[k |-> y[2], v |-> y[4]]>>])
        ELSE IF /\ Len(y) = 9 /\ y[1] = "{" /\ y[2] \in JsonStrings /\ y[3] = ":"
                /\ y[4] \in JsonScalars /\ y[5] = "," /\ y[6] \in JsonStrings
                /\ y[7] = ":" /\ y[8] \in JsonScalars /\ y[9] = "}" /\ y[2] # y[6]
        THEN Ok([t |-> "dict", items |-> <<[k |-> y[2], v |-> y[4]],
                                           [k |-> y[6], v |-> y[8]]>>])
        ELSE IF y = <<"[", "]">> THEN Ok([t |-> "list", items |-> <<>>])
        ELSE IF Len(y) = 1 /\ y[1] \in JsonScalars
        THEN Ok([t |-> "scalar", items |-> <<y[1]>>])
        \* arrays nested deeper than the interpreter's recursion limit
        ELSE IF y = <<"[[[...">> THEN Raise("RecursionError")
        ELSE Raise("JSONDecodeError")

\* json.dumps(value, indent=2)
RECURSIVE DumpItems(_)
DumpItems(items) ==
    IF items = <<>> THEN <<>>
    ELSE Text(<<"\n", " ", " ", Head(items).k, ":", " ", Head(items).v>>)
         \o (IF Len(items) > 1 THEN Text(<<",">>) ELSE <<>>)
         \o DumpItems(Tail(items))

json_dumps(value) ==
    IF value.t = "dict"
    THEN IF value.items = <<>> THEN Text(<<"{", "}">>)
         ELSE Text(<<"{">>) \o DumpItems(value.items) \o Text(<<"\n", "}">>)
    ELSE IF value.t = "list" THEN Text(<<"[", "]">>)
    ELSE Text(value.items)

\* str(x) of a parsed JSON scalar
PyStr(sym) ==
    CASE sym = "\"title\"" -> "title"
      [] sym = "\"name\"" -> "name"
      [] sym = "\"id\"" -> "id"
      [] sym = "\"key\"" -> "key"
      [] sym = "\"other\"" -> "other"
      [] sym = "\"X\"" -> "X"
      [] sym = "null" -> "None"
      [] OTHER -> sym

(***************************************************************************)
(* extract_text_content (src/app/api/read.py)                              *)
(***************************************************************************)
RawContentLimit == 5000


TitleFields == <<"\"title\"", "\"name\"", "\"id\"", "\"key\"">>

\* The first line that is not blank, stripped; "Text Document" without one.
RECURSIVE FirstLineTitle(_)
FirstLineTitle(lines) ==
    IF lines = <<>> THEN Text(<<"Text Document">>)
    ELSE IF Strip(Head(lines)) # <<>> THEN Strip(Head(lines))
    ELSE FirstLineTitle(Tail(lines))

\* The title of parsed JSON: the first of TitleFields[i..] the object has.
RECURSIVE JsonTitle(_, _)
JsonTitle(json_data, i) ==
    IF i > Len(TitleFields) THEN Text(<<"JSON Document">>)
    ELSE IF /\ json_data.t = "dict"
            /\ \E m \in 1..Len(json_data.items) : json_data.items[m].k = TitleFields[i]
    THEN LET m == CHOOSE m \in 1..Len(json_data.items) :
                       json_data.items[m].k = TitleFields[i]
         IN  Text(<<"JSON: ", PyStr(json_data.items[m].v)>>)
    ELSE JsonTitle(json_data, i + 1)

extract_text_content(content, content_type, url) ==
    IF Contains(content_type, "text/plain")
    THEN Ok([title |-> FirstLineTitle(SplitLines(content)), url |-> url,
             content |-> content])
    ELSE IF Contains(content_type, "application/json")
    THEN LET json_data == json_loads(content)
         IN  IF json_data.ok
             THEN Ok([title |-> JsonTitle(json_data.val, 1), url |-> url,
                      content |-> Text(<<Fence, "json", "\n">>) \o json_dumps(json_data.val)
                                  \o Text(<<"\n", Fence>>)])
             ELSE IF IsSubclass(json_data.exc, "JSONDecodeError")
             THEN Ok([title |-> Text(<<"Invalid JSON Document">>), url |-> url,
                      content |-> content])
             ELSE json_data
    ELSE Ok([title |-> Text(<<"Document (">>) \o Text(content_type) \o Text(<<")">>),
             url |-> url,
             content |-> Text(<<"Content type '">>) \o Text(content_type)
                         \o Text(<<"' not fully supported. Raw content:",
                                   "\n", "\n", Fence, "\n">>)
                         \o Take(content, RawContentLimit)
                         \o Text(<<"\n", Fence, "\n", "\n",
                                   "(Content may be truncated)">>)])

(***************************************************************************)
(* WebFetcher (src/app/utils/web_fetcher.py)                               *)
(***************************************************************************)
MAX_CONTENT_SIZE == 10 * 1024 * 1024

TEXT_CONTENT_TYPES ==
    {"text/html", "text/plain", "application/json", "application/xml", "text/xml",
     "application/javascript", "text/css", "text/markdown", "application/x-yaml",
     "text/yaml"}

\* A URL is a sequence of symbols: "https", ":", "//", "example.com", "/a".
SchemeWords == {"http", "https", "ftp"}

\* The symbols of s from the i-th up to the first that starts a path.
RECURSIVE NetlocFrom(_, _)
NetlocFrom(s, i) ==
    IF i > Len(s) \/ s[i] \in {"/", "//", "/a"} THEN <<>>
    ELSE <<s[i]>> \o NetlocFrom(s, i + 1)

\* urllib.parse.urlparse(url), its scheme and netloc
urlparse(url) ==
    LET hasScheme == Len(url) >= 2 /\ url[1] \in SchemeWords /\ url[2] = ":"
        rest == IF hasScheme THEN SubSeq(url, 3, Len(url)) ELSE url
    IN  [scheme |-> IF hasScheme THEN url[1] ELSE "",
         netloc |-> IF rest # <<>> /\ rest[1] = "//" THEN NetlocFrom(rest, 2) ELSE <<>>]

\* str.lower() of a symbol
Lower(sym) == IF sym = "TEXT/HTML" THEN "text/html" ELSE sym

\* header.split(';')[0].lower()
RECURSIVE BeforeSemicolon(_)
BeforeSemicolon(h) ==
    IF h = <<>> \/ Head(h) = ";" THEN <<>>
    ELSE <<Lower(Head(h))>> \o BeforeSemicolon(Tail(h))

\* A Content-Length header: absent, or the string it holds.
HeaderTruthy(h) == h.kind \notin {"absent", "empty"}

\* int(header)
ParseInt(h) == IF h.kind = "int" THEN Ok(h.val) ELSE Raise("ValueError")

\* any(text_type in content_type for text_type in TEXT_CONTENT_TYPES)
is_text(content_type) == \E t \in TEXT_CONTENT_TYPES : Contains(content_type, t)

\* fetch_url's handlers: the five clauses of the inner try, then
\* `except Exception`; each returns None (<<>>).
FetchInnerHandlers ==
    {"ClientResponseError", "ClientConnectorError", "ClientPayloadError",
     "ClientConnectionError", "ServerTimeoutError"}

fetch_handle_inner_only(e) ==
    IF \E h \in FetchInnerHandlers : IsSubclass(e, h) THEN Ok(<<>>)
    ELSE Raise(e)

fetch_handle(e) ==
    IF \E h \in FetchInnerHandlers : IsSubclass(e, h) THEN Ok(<<>>)
    ELSE IF IsSubclass(e, "Exception") THEN Ok(<<>>)
    ELSE Raise(e)

\* int(content_length) > WebFetcher.MAX_CONTENT_SIZE
exceeds_cap_inclusive(size) == size >= MAX_CONTENT_SIZE

exceeds_cap(size) == size > MAX_CONTENT_SIZE

\* What fetch_url does with a response before it reads any body: "return"
\* a result (None is <<>>, else <<content, content_type>>), "raise", or go
\* on to "read" the body as text.
fetch_response(resp) ==
    LET content_type == BeforeSemicolon(resp.content_type)
        content_length == resp.content_length
        too_large == IF HeaderTruthy(content_length)
                     THEN IF ParseInt(content_length).ok
                          THEN Ok(exceeds_cap(ParseInt(content_length).val))
                          ELSE ParseInt(content_length)
                     ELSE Ok(FALSE)
    IN  IF resp.status # 200 THEN [do |-> "return", val |-> <<>>]
        ELSE IF ~too_large.ok THEN [do |-> "raise", exc |-> too_large.exc]
        ELSE IF too_large.val
        THEN [do |-> "return",
              val |-> <<Text(<<"Content too large to process (size: ",
                               ToString(content_length.val), " bytes, max: ",
                               ToString(MAX_CONTENT_SIZE), " bytes)">>),
                        <<"text/plain">>>>]
        ELSE IF is_text(content_type)
        THEN [do |-> "read", content_type |-> content_type]
        ELSE [do |-> "return",
              val |-> <<Text(<<"Binary content type detected: ">>) \o Text(content_type)
                        \o Text(<<". This content type is not supported for processing.">>),
                        <<"text/plain">>>>]

(***************************************************************************)
(* read_url (src/app/api/read.py), from the return of fetch_url on.        *)
(***************************************************************************)
RaiseHTTP(code) == [ok |-> FALSE, exc |-> "HTTPException", status_code |-> code]

\* The body of read_url's try block once fetch_url has returned or raised.
read_url_try(fetched, url, format) ==
    IF ~fetched.ok THEN fetched
    ELSE IF fetched.val = <<>> THEN RaiseHTTP(404)
    ELSE LET content == fetched.val[1]
             content_type == fetched.val[2]
             processed_content ==
                 IF Contains(content_type, "text/html")
                 THEN process_html(content, url)
                 ELSE extract_text_content(content, content_type, url)
         IN  IF ~processed_content.ok THEN processed_content
             ELSE IF format = "md" THEN Ok(<<processed_content.val.content>>)
             ELSE Ok(<<processed_content.val>>)

\* read_url's `except Exception`, and the HTTP response the caller receives.
read_url_respond(fetched, url, format) ==
    LET r == read_url_try(fetched, url, format)
    IN  IF r.ok THEN [status |-> 200, body |-> r.val]
        ELSE IF IsSubclass(r.exc, "Exception") THEN [status |-> 500, body |-> <<>>]
        ELSE [status |-> r.status_code, body |-> <<>>]

(***************************************************************************)
(* The inputs of the model.                                                *)
(***************************************************************************)
\* URLs given to read_url
ReadUrls ==
    {<<"example.com", "/a">>,
     <<"http", ":", "//", "example.com", "/a">>,
     <<"https", ":", "//", "example.com">>,
     <<"ftp", ":", "//", "example.com">>,
     <<>>}

\* URLs given to fetch_url
FetchUrls ==
    ReadUrls \cup {<<"//", "example.com", "/a">>, <<"https", ":", "//">>,
                   <<"http", ":", "example.com">>}

Formats == {"json", "md"}

Statuses == {200, 201, 404}

ContentTypeHeaders ==
    {<<>>, <<"text/html">>, <<"text/html", ";", " charset=utf-8">>, <<"TEXT/HTML">>,
     <<"text/plain">>, <<"application/json">>, <<"application/json", "-seq">>,
     <<"text/css">>, <<"image/png">>, <<"application/xhtml+xml">>}

ContentLengthHeaders ==
    {[kind |-> "absent"], [kind |-> "empty"], [kind |-> "malformed"]}
    \cup {[kind |-> "int", val |-> v] :
            v \in {0, MAX_CONTENT_SIZE, MAX_CONTENT_SIZE + 1}}

\* What session.get can raise instead of giving a response.
RequestErrors ==
    {"ClientConnectorError", "ClientConnectionError", "ClientResponseError",
     "ServerTimeoutError", "InvalidURL", "TimeoutError"}

\* What response.text() can raise.
BodyErrors == {"UnicodeDecodeError", "ClientPayloadError", "TimeoutError"}

\* An optional element: absent, or its symbols between the tags.
Part(open, close, inner) ==
    IF inner = <<>> THEN <<>> ELSE Text(<<open>> \o inner[1] \o <<close>>)

InnerTexts(sym) == {<<>>, <<" ">>, <<sym>>, <<" ", sym, "\n">>}

HtmlBodies ==
    {Part("<title>", "</title>", t) \o Part("<h1>", "</h1>", h) :
        t \in {<<>>} \cup {<<x>> : x \in InnerTexts("T")},
        h \in {<<>>} \cup {<<x>> : x \in InnerTexts("H")}}
    \cup {Text(<<"<svg>", "<title>", "T", "</title>", "</svg>", "<h1>", "H", "</h1>">>),
          Text(<<"<title>", "T", "</title>", "<body>", "<h1>", "H", "</h1>", "\n",
                 "\n", "\n", "\n", "a", "</body>">>)}

\* Documents that hold what clean_html is to remove: one of the elements,
\* or a comment; "secret" stands for the text inside it.
Comments ==
    {Text(<<"<!--", "secret", "-->">>),
     Text(<<"<!--", "secret", ">", "secret", "-->">>),
     Text(<<"<!--", "secret", "<!--", "secret", "-->">>)}

Unwanted ==
    {Text(<<RemovedElements[i].open, "secret", RemovedElements[i].close>>) :
        i \in 1..Len(RemovedElements)}
    \cup {Text(<<"<source>">>)}
    \cup Comments

UnwantedBodies ==
    {Text(<<"<h1>", "H", "</h1>">>) \o u \o Text(<<"a">>) : u \in Unwanted}
    \cup {Text(<<"<title>", "T", "</title>", "<body>", "a">>) \o u
           \o Text(<<"<p>", "b", "</p>", "</body>">>) : u \in Unwanted}

\* Tables.  A row is the kind of its cells and their texts; a table is the
\* row of its <thead>, if it has one, and its other rows.
MaxTableRows == 2

TableRows ==
    {[kind |-> k, cells |-> c] : k \in {"th", "td"}, c \in {<<"x">>, <<"x", "y">>}}
    \cup {[kind |-> "td", cells |-> <<>>]}

Tables ==
    {[head |-> h, rows |-> r] :
        h \in {<<>>} \cup {<<x>> : x \in TableRows},
        r \in UNION {[1..n -> TableRows] : n \in 0..MaxTableRows}}

RowHtml(row) ==
    Text(<<"<tr>">>)
    \o Join([i \in 1..Len(row.cells) |->
                Text(IF row.kind = "th" THEN <<"<th>", " ", row.cells[i], "</th>">>
                     ELSE <<"<td>", row.cells[i], " ", "</td>">>)], "\n")
    \o Text(<<"</tr>">>)

TableHtml(table) ==
    Text(<<"<table>">>)
    \o (IF table.head = <<>> THEN <<>>
        ELSE Text(<<"<thead>">>) \o RowHtml(table.head[1]) \o Text(<<"</thead>">>))
    \o Join([i \in 1..Len(table.rows) |-> RowHtml(table.rows[i])], "\n")
    \o Text(<<"</table>">>)

\* Documents with one table: at the top of the body, inside a paragraph,
\* inside a heading.
Wrappers ==
    {[open |-> <<>>, close |-> <<>>],
     [open |-> <<"<p>">>, close |-> <<"</p>">>],
     [open |-> <<"<h1>">>, close |-> <<"</h1>">>]}

TableBodies ==
    {Text(<<"<title>", "T", "</title>", "<body>", "a", "\n">>)
     \o Text(w.open) \o TableHtml(t) \o Text(w.close)
     \o Text(<<"\n", "b", "</body>">>) :
        w \in Wrappers,
        t \in {u \in Tables : u.head = <<>> /\ u.rows # <<>> /\ u.rows[1].kind = "th"}}

\* Documents whose body holds two of: a <pre> block, a paragraph, text with
\* a bold element, text with a line break, plain text.
Pieces ==
    {Text(<<"<pre>", "c", "\n", "d", "</pre>">>),
     Text(<<"<p>", "t", "</p>">>),
     Text(<<"a", "<b>", "x", "</b>">>),
     Text(<<"e", "<br/>", "f">>),
     Text(<<"g">>)}

PassBodies ==
    {Text(<<"<title>", "T", "</title>", "<body>">>) \o x \o y \o Text(<<"</body>">>) :
        x \in Pieces, y \in Pieces}

TextBodies ==
    {Text(<<" ", "\n", " ">>), Text(<<"\n", " ", "a", " ", "\n", "b">>), Text(<<"a">>)}

JsonBodies ==
    {Text(<<"{", k, ":", "\"X\"", "}">>) : k \in {"\"title\"", "\"name\"", "\"other\""}}
    \cup {Text(<<"{", "}">>), Text(<<"[", "]">>), Text(<<"1">>), Text(<<"{">>),
          Text(<<"{", "\"id\"", ":", "1", ",", "\"title\"", ":", "\"X\"", "}">>),
          Text(<<"[[[...">>)}

LongBodies ==
    {Rep("a", RawContentLimit), Rep("a", RawContentLimit + 1),
     Rep("a", RawContentLimit + 1) \o Text(<<"\n", "b">>)}

Bodies == HtmlBodies \cup TextBodies \cup JsonBodies \cup LongBodies

\* Media types given to extract_text_content
MediaTypes ==
    {<<"text/plain">>, <<"application/json">>, <<"application/json", "-seq">>,
     <<"x-", "text/plain">>, <<"text/css">>, <<"image/png">>, <<>>}

(***************************************************************************)
(* The state.                                                              *)
(***************************************************************************)
VARIABLES
    pc,            \* where the operation stands
    op,            \* the operation: "read", "fetch", "extract_title", ...
    args,          \* its arguments
    net,           \* sessions opened and open, requests sent, body read
    response,      \* the response received: <<>> or <<response>>
    fetch_result,  \* what fetch_url returned or raised: <<>> or <<outcome>>
    out,           \* what the operation gave its caller: <<>> or <<outcome>>
    provider,      \* settings.search.provider
    brave_api_key, \* settings.search.brave.api_key: <<>> (None) or <<key>>
    client,        \* the adapter get_client returned: <<>> or <<outcome>>
    request,       \* the parameters of the adapter's request, once built
    results,       \* what the adapter's search returned or raised
    security,      \* settings.security
    api_key_header, \* the X-API-Key header of the request: <<>> or <<key>>
    tasks,         \* the calls that are suspended, each with its own state
    current        \* the call that is running

search_vars == <<provider, brave_api_key, client, request, results>>

auth_vars == <<security, api_key_header>>

task_vars == <<tasks, current>>

vars == <<pc, op, args, net, response, fetch_result, out, search_vars, auth_vars,
          task_vars>>

\* SecurityConfig: the keys of API_KEYS, or the default key when
\* authentication is enabled and API_KEYS gives none.
security_config(env_api_keys, default_key, auth_enabled) ==
    [api_keys |-> IF auth_enabled /\ env_api_keys = <<>>
                  THEN <<default_key>>
                  ELSE env_api_keys,
     default_key |-> default_key,
     auth_enabled |-> auth_enabled]

\* The calls the event loop can hold at one time.
TaskIds == {"t1", "t2"}

\* The state of a call that has not started.
IdleFrame ==
    [pc |-> "idle", op |-> "none", args |-> <<>>,
     net |-> [opened |-> 0, open |-> 0, sent |-> 0, body_read |-> FALSE],
     response |-> <<>>, fetch_result |-> <<>>, out |-> <<>>, client |-> <<>>,
     request |-> <<>>, results |-> <<>>, api_key_header |-> <<>>]

\* One call runs and no other has started.
OneCall ==
    /\ current = "t1"
    /\ tasks = [t \in TaskIds |-> IdleFrame]

\* No operation has started.
Idle ==
    /\ pc = "idle"
    /\ op = "none"
    /\ args = <<>>
    /\ net = [opened |-> 0, open |-> 0, sent |-> 0, body_read |-> FALSE]
    /\ response = <<>>
    /\ fetch_result = <<>>
    /\ out = <<>>
    /\ client = <<>>
    /\ request = <<>>
    /\ results = <<>>
    /\ api_key_header = <<>>

\* The configuration when the environment sets nothing: SEARCH_PROVIDER
\* defaults to SearchProvider.DUCKDUCKGO and BRAVE_API_KEY to None.
Init ==
    /\ Idle
    /\ provider = [value |-> "duckduckgo", is_enum |-> TRUE]
    /\ brave_api_key = <<>>
    /\ security = security_config(<<>>, "default", TRUE)
    /\ OneCall

(***************************************************************************)
(* The read operation.                                                     *)
(***************************************************************************)
\* read_url up to its call of fetch_url: "https://" is put before a URL
\* that starts with neither "http://" nor "https://".
ReadUrl ==
    \E url \in ReadUrls, format \in Formats :
        /\ pc = "idle"
        /\ op' = "read"
        /\ args' = [url |-> IF /\ Len(url) >= 3 /\ url[1] \in {"http", "https"}
                               /\ url[2] = ":" /\ url[3] = "//"
                            THEN url
                            ELSE <<"https", ":", "//">> \o url,
                    format |-> format]
        /\ pc' = "fetch_validate"
        /\ UNCHANGED <<net, response, fetch_result, out, search_vars,
                       auth_vars, task_vars>>

\* WebFetcher.fetch_url called by itself.
FetchUrl ==
    \E url \in FetchUrls :
        /\ pc = "idle"
        /\ op' = "fetch"
        /\ args' = [url |-> url, format |-> "json"]
        /\ pc' = "fetch_validate"
        /\ UNCHANGED <<net, response, fetch_result, out, search_vars,
                       auth_vars, task_vars>>

\* fetch_url: the URL is parsed and checked before the try block.
url_is_invalid_both(url) == urlparse(url).scheme = "" /\ urlparse(url).netloc = <<>>

url_is_invalid(url) == urlparse(url).scheme = "" \/ urlparse(url).netloc = <<>>

FetchValidate ==
    /\ pc = "fetch_validate"
    /\ IF url_is_invalid(args.url)
       THEN /\ fetch_result' = <<Raise("ValueError")>>
            /\ pc' = "fetch_return"
       ELSE /\ pc' = "fetch_open"
            /\ UNCHANGED fetch_result
    /\ UNCHANGED <<op, args, net, response, out, search_vars,
                   auth_vars, task_vars>>

\* async with aiohttp.ClientSession(...) as session
FetchOpenSession ==
    /\ pc = "fetch_open"
    /\ net' = [net EXCEPT !.opened = @ + 1, !.open = @ + 1]
    /\ pc' = "fetch_get"
    /\ UNCHANGED <<op, args, response, fetch_result, out, search_vars,
                   auth_vars, task_vars>>

\* Where a call stands after its request failed: the handlers return the
\* failure result, and nothing sends the request again.
after_failure_retry(call) == IF call = "search" THEN "adapter_send" ELSE "fetch_get"

after_failure(call) == IF call = "search" THEN "search_return" ELSE "fetch_return"

\* session.get(...): the request is sent; it fails, or a response arrives.
FetchGet ==
    /\ pc = "fetch_get"
    /\ \/ \E e \in RequestErrors :
            /\ net' = [net EXCEPT !.sent = @ + 1, !.open = @ - 1]
            /\ fetch_result' = <<fetch_handle(e)>>
            /\ pc' = after_failure(op)
            /\ UNCHANGED response
       \/ \E status \in Statuses, ct \in ContentTypeHeaders,
             cl \in ContentLengthHeaders :
            /\ net' = [net EXCEPT !.sent = @ + 1]
            /\ response' = <<[status |-> status, content_type |-> ct,
                              content_length |-> cl]>>
            /\ pc' = "fetch_response"
            /\ UNCHANGED fetch_result
    /\ UNCHANGED <<op, args, out, search_vars,
                   auth_vars, task_vars>>

\* The status, the size guard and the classification of the response.
FetchResponse ==
    /\ pc = "fetch_response"
    /\ LET r == fetch_response(response[1])
       IN  IF r.do = "read"
           THEN /\ pc' = "fetch_text"
                /\ UNCHANGED <<net, fetch_result>>
           ELSE /\ fetch_result' =
                       <<IF r.do = "raise" THEN fetch_handle(r.exc) ELSE Ok(r.val)>>
                /\ net' = [net EXCEPT !.open = @ - 1]
                /\ pc' = "fetch_return"
    /\ UNCHANGED <<op, args, response, out, search_vars,
                   auth_vars, task_vars>>

\* await response.text(): the body is read and decoded, or that fails.
FetchText ==
    /\ pc = "fetch_text"
    /\ LET content_type == fetch_response(response[1]).content_type
       IN  \/ \E content \in Bodies :
                fetch_result' = <<Ok(<<content, content_type>>)>>
           \/ \E e \in BodyErrors :
                fetch_result' =
                    <<IF IsSubclass(e, "UnicodeDecodeError")
                      THEN Ok(<<Text(<<"Failed to decode content as text (content-type: ">>)
                                \o Text(content_type) \o Text(<<")">>),
                                <<"text/plain">>>>)
                      ELSE fetch_handle(e)>>
    /\ net' = [net EXCEPT !.body_read = TRUE, !.open = @ - 1]
    /\ pc' = "fetch_return"
    /\ UNCHANGED <<op, args, response, out, search_vars,
                   auth_vars, task_vars>>

\* read_url after fetch_url: the document, or the error response.
ReadRespond ==
    /\ pc = "fetch_return"
    /\ op = "read"
    /\ out' = <<read_url_respond(fetch_result[1], args.url, args.format)>>
    /\ pc' = "done"
    /\ UNCHANGED <<op, args, net, response, fetch_result, search_vars,
                   auth_vars, task_vars>>

NextRead ==
    \/ ReadUrl
    \/ FetchUrl
    \/ FetchValidate
    \/ FetchOpenSession
    \/ FetchGet
    \/ FetchResponse
    \/ FetchText
    \/ ReadRespond

SpecRead == Init /\ [][NextRead]_vars

(***************************************************************************)
(* The functions of the read pipeline called by themselves.                *)
(***************************************************************************)
ExtractTitle ==
    \E html \in HtmlBodies :
        /\ pc = "idle"
        /\ op' = "extract_title"
        /\ args' = [soup |-> clean_html(html)]
        /\ out' = <<extract_title(clean_html(html))>>
        /\ pc' = "done"
        /\ UNCHANGED <<net, response, fetch_result, search_vars,
                       auth_vars, task_vars>>

\* HTMLCleaner.clean_html called by itself.
CleanHtml ==
    \E html \in HtmlBodies \cup UnwantedBodies :
        /\ pc = "idle"
        /\ op' = "clean_html"
        /\ args' = [html_content |-> html]
        /\ out' = <<Ok(clean_html(html))>>
        /\ pc' = "done"
        /\ UNCHANGED <<net, response, fetch_result, search_vars,
                       auth_vars, task_vars>>

\* HTMLCleaner._convert_tables called by itself, on a document that is one
\* table.
ConvertTables ==
    \E table \in Tables :
        /\ pc = "idle"
        /\ op' = "convert_tables"
        /\ args' = [table |-> table, content |-> TableHtml(table)]
        /\ out' = <<Ok(convert_tables(TableHtml(table)))>>
        /\ pc' = "done"
        /\ UNCHANGED <<net, response, fetch_result, search_vars,
                       auth_vars, task_vars>>

ProcessHtml ==
    \E html \in Bodies \cup UnwantedBodies \cup TableBodies \cup PassBodies :
        /\ pc = "idle"
        /\ op' = "process_html"
        /\ args' = [content |-> html, url |-> <<"https", ":", "//", "example.com">>]
        /\ out' = <<process_html(html, <<"https", ":", "//", "example.com">>)>>
        /\ pc' = "done"
        /\ UNCHANGED <<net, response, fetch_result, search_vars,
                       auth_vars, task_vars>>

ExtractTextContent ==
    \E content \in Bodies, content_type \in MediaTypes :
        /\ pc = "idle"
        /\ op' = "extract_text_content"
        /\ args' = [content |-> content, content_type |-> content_type,
                    url |-> <<"https", ":", "//", "example.com">>]
        /\ out' = <<extract_text_content(content, content_type,
                                         <<"https", ":", "//", "example.com">>)>>
        /\ pc' = "done"
        /\ UNCHANGED <<net, response, fetch_result, search_vars,
                       auth_vars, task_vars>>

NextExtract ==
    \/ ExtractTitle
    \/ ConvertTables
    \/ CleanHtml
    \/ ProcessHtml
    \/ ExtractTextContent

SpecExtract == Init /\ [][NextExtract]_vars

(***************************************************************************)
(* The read operation and the Fetcher: properties.                         *)
(***************************************************************************)
\* fetch_url gave its failure result, None.
FetchFailed == fetch_result # <<>> /\ fetch_result[1].ok /\ fetch_result[1].val = <<>>

\* C1: in the read operation, whenever fetch_url reports failure (returns
\* None), the response the caller receives is HTTP 404, never HTTP 500.
C1_FetchFailureIsNotFound ==
    (op = "read" /\ pc = "done" /\ FetchFailed) => out[1].status = 404

\* The response carries a Content-Length that is a number above the cap.
Oversized ==
    /\ response # <<>>
    /\ response[1].content_length.kind = "int"
    /\ response[1].content_length.val > 10 * 1024 * 1024

\* fetch_url returned the plain-text notice that states the size and the cap.
TooLargeNotice ==
    /\ fetch_result # <<>>
    /\ fetch_result[1].ok
    /\ fetch_result[1].val # <<>>
    /\ fetch_result[1].val[2] = <<"text/plain">>
    /\ fetch_result[1].val[1] =
         Text(<<"Content too large to process (size: ",
                ToString(response[1].content_length.val), " bytes, max: ",
                "10485760", " bytes)">>)

\* fetch_url returned a text that begins as the notice does.
AnyTooLargeNotice ==
    /\ fetch_result # <<>>
    /\ fetch_result[1].ok
    /\ fetch_result[1].val # <<>>
    /\ fetch_result[1].val[1] # <<>>
    /\ fetch_result[1].val[1][1].c = "Content too large to process (size: "

LacksSchemeOrHost ==
    /\ op \in {"read", "fetch"}
    /\ \/ urlparse(args.url).scheme = ""
       \/ urlparse(args.url).netloc = <<>>

\* C5: fetch_url called with a URL that lacks a scheme or a host fails with
\* the invalid-URL error, and no session is opened and no request is sent in
\* that call.
C5_InvalidUrlNoNetwork ==
    LacksSchemeOrHost =>
        /\ net.opened = 0 /\ net.sent = 0
        /\ pc \in {"fetch_validate", "fetch_return", "done"}
        /\ pc # "fetch_validate" => fetch_result = <<Raise("ValueError")>>

C5_Witness ==
    /\ LacksSchemeOrHost /\ op = "fetch" /\ pc = "fetch_return"
    /\ urlparse(args.url).scheme = "https"
    /\ fetch_result = <<Raise("ValueError")>>

(***************************************************************************)
(* Title and document extraction: properties.                              *)
(***************************************************************************)
\* C8: extract_title returns the text of <title> when the element exists and
\* is not empty, else the text of the first <h1>, else "No title found"; an
\* empty <title></title> does not raise.
C8_TitleFallbackOrder ==
    (op = "extract_title" /\ pc = "done") =>
        LET title == FindElement(args.soup, "<title>", "</title>")
            h1 == FindElement(args.soup, "<h1>", "</h1>")
        IN  /\ out[1].ok
            /\ out[1].val =
                 IF title # <<>> /\ title[1].inner # <<>> THEN Strip(title[1].inner)
                 ELSE IF h1 # <<>> THEN Strip(GetText(h1[1]))
                 ELSE Text(<<"No title found">>)

\* C9: every document that process_html or extract_text_content produces
\* has a title that is not empty.
C9_TitleNeverEmpty ==
    (op \in {"process_html", "extract_text_content"} /\ pc = "done" /\ out[1].ok) =>
        StrLen(out[1].val.title) > 0

\* C10: extract_text_content never raises; for application/json with content
\* that does not parse it gives the title "Invalid JSON Document" and the
\* content verbatim; for a media type that is neither text/plain nor
\* application/json it gives the unsupported-type message with at most the
\* first 5000 characters of the content.
C10_ExtractTextContentTotal ==
    (op = "extract_text_content" /\ pc = "done") =>
        /\ out[1].ok
        /\ (args.content_type = <<"application/json">> /\ ~json_loads(args.content).ok) =>
              /\ out[1].val.title = Text(<<"Invalid JSON Document">>)
              /\ out[1].val.content = args.content
        /\ args.content_type \notin {<<"text/plain">>, <<"application/json">>} =>
              /\ out[1].val.title =
                   Text(<<"Document (">>) \o Text(args.content_type) \o Text(<<")">>)
              /\ \E k \in 0..5000 :
                   /\ k = StrLen(args.content) \/ k = 5000
                   /\ k <= StrLen(args.content)
                   /\ out[1].val.content =
                        Text(<<"Content type '">>) \o Text(args.content_type)
                        \o Text(<<"' not fully supported. Raw content:",
                                  "\n", "\n", Fence, "\n">>)
                        \o Take(args.content, k)
                        \o Text(<<"\n", Fence, "\n", "\n", "(Content may be truncated)">>)

(***************************************************************************)
(* Python values of a decoded JSON response, and dict.get / iteration.     *)
(***************************************************************************)
PyNull == [t |-> "null"]
PyS(kind, i) == [t |-> "str", s |-> kind, i |-> i]
PyEmptyStr == PyS("", 0)
PyList(items) == [t |-> "list", items |-> items]
PyDict(items) == [t |-> "dict", items |-> items]

\* obj.get(key, default): AttributeError unless obj is a dict.
PyGet(obj, key, default) ==
    IF obj.t # "dict" THEN Raise("AttributeError")
    ELSE IF \E m \in 1..Len(obj.items) : obj.items[m].k = key
    THEN Ok(obj.items[CHOOSE m \in 1..Len(obj.items) : obj.items[m].k = key].v)
    ELSE Ok(default)

\* `for x in obj`: the elements of a list, the keys of a dict; TypeError for
\* a value that cannot be iterated.
PyIter(obj) ==
    IF obj.t = "list" THEN Ok(obj.items)
    ELSE IF obj.t = "dict"
    THEN Ok([m \in 1..Len(obj.items) |-> PyS(obj.items[m].k, 0)])
    ELSE IF obj.t = "str" THEN Ok(IF obj.s = "" THEN <<>> ELSE <<obj>>)
    ELSE Raise("TypeError")

\* list[:n]
Slice(list, n) ==
    IF n >= 0 THEN SubSeq(list, 1, IF n < Len(list) THEN n ELSE Len(list))
    ELSE SubSeq(list, 1, IF Len(list) + n > 0 THEN Len(list) + n ELSE 0)

\* The loop of an adapter over the backend's results: each result.get(...)
\* raises AttributeError for a result that is not a dict.
Normalize(entries, snippet_key) ==
    IF \E m \in 1..Len(entries) : entries[m].t # "dict" THEN Raise("AttributeError")
    ELSE Ok([m \in 1..Len(entries) |->
                [title |-> PyGet(entries[m], "title", PyEmptyStr).val,
                 url |-> PyGet(entries[m], "url", PyEmptyStr).val,
                 snippet |-> PyGet(entries[m], snippet_key, PyEmptyStr).val]])

(***************************************************************************)
(* SearXNGClient.search (src/app/utils/searx.py), from the decoded         *)
(* response on.                                                            *)
(***************************************************************************)
searx_results(response_data, num_results) ==
    LET found == PyGet(response_data, "results", PyList(<<>>))
        entries == IF found.ok THEN PyIter(found.val) ELSE found
        normal == IF entries.ok THEN Normalize(entries.val, "content") ELSE entries
    IN  IF normal.ok THEN Ok(Slice(normal.val, num_results)) ELSE normal

(***************************************************************************)
(* BraveSearchClient (src/app/utils/brave.py)                              *)
(***************************************************************************)
process_brave_results(response_data) ==
    LET web == PyGet(response_data, "web", PyDict(<<>>))
        found == IF web.ok THEN PyGet(web.val, "results", PyList(<<>>)) ELSE web
        entries == IF found.ok THEN PyIter(found.val) ELSE found
    IN  IF entries.ok THEN Normalize(entries.val, "description") ELSE entries

\* str.upper() of a subtag
Upper(sym) == IF sym = "fr" THEN "FR" ELSE IF sym = "us" THEN "US" ELSE sym

\* A language tag is the sequence of its subtags: <<"en", "US">> is en-US.
extract_country_code(language) ==
    IF Len(language) >= 2 THEN Upper(language[2]) ELSE "US"

brave_convert_time_range(time_range) ==
    CASE time_range = "day" -> "pd"
      [] time_range = "week" -> "pw"
      [] time_range = "month" -> "pm"
      [] time_range = "year" -> "py"
      [] OTHER -> ""

(***************************************************************************)
(* DuckDuckGoClient (src/app/utils/duckduckgo.py).  The results page is a  *)
(* sequence of result blocks; a block holds the result anchor (its href    *)
(* and text) and, when the page gives one, the snippet anchor.             *)
(***************************************************************************)
\* str.replace of the five entities, one symbol at a time
DecodeEntity(sym) ==
    CASE sym = "&quot;" -> "\""
      [] sym = "&amp;" -> "&"
      [] sym = "&lt;" -> "<"
      [] sym = "&gt;" -> ">"
      [] sym = "&#x27;" -> "'"
      [] OTHER -> sym

DecodeEntities(s) == [i \in 1..Len(s) |-> [c |-> DecodeEntity(s[i].c), n |-> s[i].n]]

\* re.sub(r'<[^>]+>', ' ', snippet)
SnippetTags == {"<b>", "</b>"}
TagsToSpaces(s) ==
    [i \in 1..Len(s) |-> IF s[i].c \in SnippetTags THEN [c |-> " ", n |-> s[i].n] ELSE s[i]]

\* re.findall of the snippet anchors: the snippets of the blocks that have one
RECURSIVE SnippetMatches(_)
SnippetMatches(page) ==
    IF page = <<>> THEN <<>>
    ELSE Head(page).snippet \o SnippetMatches(Tail(page))

parse_html_results(html_content) ==
    LET title_matches == html_content
        snippet_matches == SnippetMatches(html_content)
    IN  [i \in 1..Len(title_matches) |->
            [title |-> DecodeEntities(Strip(title_matches[i].title)),
             url |-> title_matches[i].url,
             snippet |-> IF i <= Len(snippet_matches)
                         THEN DecodeEntities(Strip(TagsToSpaces(snippet_matches[i])))
                         ELSE <<>>]]

ddg_convert_language(language) ==
    CASE language = <<"en", "US">> -> "us-en"
      [] language = <<"en", "GB">> -> "uk-en"
      [] language = <<"en", "CA">> -> "ca-en"
      [] language = <<"fr", "FR">> -> "fr-fr"
      [] language = <<"de", "DE">> -> "de-de"
      [] language = <<"es", "ES">> -> "es-es"
      [] language = <<"it", "IT">> -> "it-it"
      [] language = <<"ja", "JP">> -> "jp-jp"
      [] OTHER -> "wt-wt"

ddg_convert_time_range(time_range) ==
    CASE time_range = "day" -> "d"
      [] time_range = "week" -> "w"
      [] time_range = "month" -> "m"
      [] time_range = "year" -> "y"
      [] OTHER -> ""

(***************************************************************************)
(* What the three adapters share.                                          *)
(***************************************************************************)
\* `if time_range:` for the optional string: neither None nor "".
Truthy(opt) == opt # <<>> /\ opt[1] # ""

\* The parameters of the request, as the set of its <<name, value>> pairs.
\* A language tag is the sequence of its subtags; time_range is <<>> (None)
\* or <<string>>.
request_params(adapter, query, num_results, language, time_range) ==
    IF adapter = "SearXNGClient"
    THEN {<<"q", query>>, <<"format", "json">>, <<"language", language>>}
         \cup (IF /\ Truthy(time_range)
                  /\ time_range[1] \in {"day", "week", "month", "year"}
               THEN {<<"time_range", time_range[1]>>} ELSE {})
    ELSE IF adapter = "BraveSearchClient"
    THEN {<<"q", query>>, <<"count", num_results>>}
         \cup (IF language # <<>>
               THEN {<<"country", extract_country_code(language)>>} ELSE {})
         \cup (IF Truthy(time_range)
               THEN {<<"freshness", brave_convert_time_range(time_range[1])>>}
               ELSE {})
    ELSE {<<"q", query>>,
          <<"kl", IF language # <<>> THEN ddg_convert_language(language) ELSE "wt-wt">>}
         \cup (IF Truthy(time_range)
               THEN {<<"df", ddg_convert_time_range(time_range[1])>>} ELSE {})

\* The handlers of an adapter's search: `except aiohttp.ClientError` of the
\* inner try, then `except Exception`; each returns [].
adapter_handle_client_errors_only(e) ==
    IF IsSubclass(e, "ClientError") THEN Ok(<<>>) ELSE Raise(e)

adapter_handle(e) ==
    IF IsSubclass(e, "ClientError") THEN Ok(<<>>)
    ELSE IF IsSubclass(e, "Exception") THEN Ok(<<>>)
    ELSE Raise(e)

\* search from the arrival of the response on.  resp.text and resp.json are
\* what `await response.text()` and `await response.json()` give: the value,
\* or the exception raised.
adapter_response(adapter, resp, num_results) ==
    LET r == IF resp.status # 200
             THEN IF resp.text.ok THEN Raise("ValueError") ELSE resp.text
             ELSE IF adapter = "DuckDuckGoClient"
             THEN IF resp.text.ok
                  THEN Ok(Slice(parse_html_results(resp.text.val), num_results))
                  ELSE resp.text
             ELSE IF ~resp.json.ok
             THEN IF resp.text.ok THEN Ok(<<>>) ELSE resp.text
             ELSE IF adapter = "SearXNGClient"
             THEN searx_results(resp.json.val, num_results)
             ELSE process_brave_results(resp.json.val)
    IN  IF r.ok THEN r ELSE adapter_handle(r.exc)

(***************************************************************************)
(* SearchClientFactory.get_client (src/app/utils/search_client.py)         *)
(***************************************************************************)
get_client_no_default(search_provider) ==
    IF search_provider.value = "searxng" THEN Ok("SearXNGClient")
    ELSE IF search_provider.value = "duckduckgo" THEN Ok("DuckDuckGoClient")
    ELSE IF search_provider.value = "brave" THEN Ok("BraveSearchClient")
    ELSE Raise("ValueError")

get_client(search_provider) ==
    IF search_provider.value = "searxng" THEN Ok("SearXNGClient")
    ELSE IF search_provider.value = "duckduckgo" THEN Ok("DuckDuckGoClient")
    ELSE IF search_provider.value = "brave" THEN Ok("BraveSearchClient")
    ELSE Ok("SearXNGClient")

(***************************************************************************)
(* search (src/app/api/search.py), from the return of the adapter on.      *)
(***************************************************************************)
\* str(settings.search.provider)
provider_str(search_provider) ==
    IF search_provider.is_enum THEN "SearchProvider.DUCKDUCKGO"
    ELSE search_provider.value

format_results_as_markdown(found) ==
    IF found = <<>> THEN <<"No results found.">>
    ELSE <<"# Search Results", found>>

search_respond(found, q, format, search_provider) ==
    IF ~found.ok
    THEN [status |-> 500, body |-> <<>>]
    ELSE IF found.val = <<>>
    THEN IF format = "md"
         THEN [status |-> 200, body |-> <<"No search results found.">>]
         ELSE [status |-> 200, body |-> [results |-> <<>>, query |-> q]]
    ELSE IF format = "md"
    THEN [status |-> 200, body |-> format_results_as_markdown(found.val)]
    ELSE [status |-> 200,
          body |-> [results |-> found.val, query |-> q,
                    provider |-> provider_str(search_provider)]]

(***************************************************************************)
(* The inputs of the search operation.                                     *)
(***************************************************************************)
MaxCount == 2
MaxBackendResults == 3

\* SEARCH_PROVIDER: unset (the enum member that is the default), or any
\* string; pydantic does not validate a default.
Providers ==
    {[value |-> "duckduckgo", is_enum |-> TRUE]}
    \cup {[value |-> v, is_enum |-> FALSE] :
            v \in {"searxng", "duckduckgo", "brave", "Brave", "google"}}

ApiKeys == {<<>>, <<"">>, <<"key">>}
Queries == {"cats"}
Languages == {<<"en", "US">>, <<"fr", "fr">>, <<"de">>, <<>>}
TimeRanges == {<<>>, <<"">>, <<"day">>, <<"week">>, <<"month">>, <<"year">>, <<"decade">>}
SearchStatuses == {200, 500}

\* The i-th result of a JSON backend; the snippet is under snippet_key.
Entry(i, snippet_key) ==
    PyDict(<<[k |-> "title", v |-> PyS("title", i)],
             [k |-> "url", v |-> PyS("url", i)],
             [k |-> snippet_key, v |-> PyS("snippet", i)]>>)

Entries(n, snippet_key) == PyList([i \in 1..n |-> Entry(i, snippet_key)])

\* Values a result list may have in place, or in front, of proper results.
OddResultLists ==
    {PyNull, PyS("oops", 0), PyDict(<<>>),
     PyList(<<PyS("oops", 0)>>), PyList(<<PyNull>>),
     PyList(<<PyDict(<<[k |-> "url", v |-> PyS("url", 1)]>>)>>)}

SearxBodies ==
    {PyDict(<<[k |-> "results", v |-> l]>>) :
        l \in {Entries(n, "content") : n \in 0..MaxBackendResults} \cup OddResultLists}
    \cup {PyDict(<<>>), PyList(<<>>), PyNull, PyS("oops", 0)}

BraveBodies ==
    {PyDict(<<[k |-> "web", v |-> PyDict(<<[k |-> "results", v |-> l]>>)]>>) :
        l \in {Entries(n, "description") : n \in 0..MaxBackendResults}
              \cup OddResultLists}
    \cup {PyDict(<<[k |-> "web", v |-> w]>>) : w \in {PyNull, PyDict(<<>>), PyList(<<>>)}}
    \cup {PyDict(<<>>), PyList(<<>>), PyNull}

\* The i-th result block of a DuckDuckGo page, with or without its snippet.
Block(i, has_snippet) ==
    [url |-> PyS("url", i),
     title |-> Text(<<" ", "Tom ", "&amp;", " Jerry ", ToString(i), " ">>),
     snippet |-> IF has_snippet
                 THEN <<Text(<<"about ", "<b>", "cats", "</b>", " &lt;", ToString(i)>>)>>
                 ELSE <<>>]

DdgPages ==
    UNION {{[i \in 1..n |-> Block(i, has[i])] : has \in [1..n -> BOOLEAN]} :
              n \in 0..MaxBackendResults}

JsonErrors == {"ContentTypeError", "JSONDecodeError", "RecursionError"}
TextErrors == {"ClientPayloadError", "UnicodeDecodeError"}

SearchResponses(adapter) ==
    {[status |-> st, text |-> t, json |-> Raise("JSONDecodeError")] :
        st \in SearchStatuses \ {200}, t \in {Ok(<<>>)} \cup {Raise(e) : e \in TextErrors}}
    \cup
    IF adapter = "DuckDuckGoClient"
    THEN {[status |-> 200, text |-> t, json |-> Raise("ContentTypeError")] :
            t \in {Ok(page) : page \in DdgPages} \cup {Raise(e) : e \in TextErrors}}
    ELSE {[status |-> 200, text |-> Ok(<<>>), json |-> Ok(body)] :
            body \in IF adapter = "SearXNGClient" THEN SearxBodies ELSE BraveBodies}
         \cup
         {[status |-> 200, text |-> t, json |-> Raise(e)] :
            e \in JsonErrors, t \in {Ok(<<>>)} \cup {Raise(x) : x \in TextErrors}}

(***************************************************************************)
(* The search operation.                                                   *)
(***************************************************************************)
\* Any configuration the environment can give.
InitSearch ==
    /\ Idle
    /\ provider \in Providers
    /\ brave_api_key \in ApiKeys
    /\ security = security_config(<<>>, "default", TRUE)
    /\ OneCall

\* GET /search arrives.
Search ==
    \E q \in Queries, format \in Formats, max_results \in 1..MaxCount,
       language \in Languages, time_range \in TimeRanges :
        /\ pc = "idle"
        /\ op' = "search"
        /\ args' = [q |-> q, format |-> format, max_results |-> max_results,
                    language |-> language, time_range |-> time_range]
        /\ pc' = "get_client"
        /\ UNCHANGED <<net, response, fetch_result, out, search_vars,
                       auth_vars, task_vars>>

\* SearchClientFactory.get_client()
GetClient ==
    /\ pc = "get_client"
    /\ client' = <<get_client(provider)>>
    /\ IF get_client(provider).ok
       THEN pc' = "adapter_prepare" /\ UNCHANGED results
       ELSE pc' = "search_return" /\ results' = <<get_client(provider)>>
    /\ UNCHANGED <<op, args, net, response, fetch_result, out, provider,
                   brave_api_key, request,
                   auth_vars, task_vars>>

\* `if not self.api_key: return []` of the Brave adapter; the other adapters
\* have no such test.
no_api_key_ignored(adapter, api_key) == FALSE

no_api_key(adapter, api_key) == adapter = "BraveSearchClient" /\ ~Truthy(api_key)

\* search of the adapter up to its try block: the Brave adapter returns []
\* when it has no key; the parameters of the request are built.
AdapterPrepare ==
    /\ pc = "adapter_prepare"
    /\ IF no_api_key(client[1].val, brave_api_key)
       THEN /\ results' = <<Ok(<<>>)>>
            /\ pc' = "search_return"
            /\ UNCHANGED request
       ELSE /\ request' = <<request_params(client[1].val, args.q, args.max_results,
                                           args.language, args.time_range)>>
            /\ pc' = "adapter_open"
            /\ UNCHANGED results
    /\ UNCHANGED <<op, args, net, response, fetch_result, out, provider,
                   brave_api_key, client,
                   auth_vars, task_vars>>

\* async with aiohttp.ClientSession(timeout=timeout) as session
AdapterOpenSession ==
    /\ pc = "adapter_open"
    /\ net' = [net EXCEPT !.opened = @ + 1, !.open = @ + 1]
    /\ pc' = "adapter_send"
    /\ UNCHANGED <<op, args, response, fetch_result, out, search_vars,
                   auth_vars, task_vars>>

\* session.get(...) / session.post(...): the request is sent; it fails, or
\* a response arrives.
AdapterSend ==
    /\ pc = "adapter_send"
    /\ \/ \E e \in RequestErrors :
            /\ net' = [net EXCEPT !.sent = @ + 1, !.open = @ - 1]
            /\ results' = <<adapter_handle(e)>>
            /\ pc' = after_failure(op)
            /\ UNCHANGED response
       \/ \E resp \in SearchResponses(client[1].val) :
            /\ net' = [net EXCEPT !.sent = @ + 1]
            /\ response' = <<resp>>
            /\ pc' = "adapter_response"
            /\ UNCHANGED results
    /\ UNCHANGED <<op, args, fetch_result, out, provider, brave_api_key, client,
                   request,
                   auth_vars, task_vars>>

\* The status check, the reading of the body and the collection of the
\* results.
AdapterResponse ==
    /\ pc = "adapter_response"
    /\ results' = <<adapter_response(client[1].val, response[1], args.max_results)>>
    /\ net' = [net EXCEPT !.body_read = TRUE, !.open = @ - 1]
    /\ pc' = "search_return"
    /\ UNCHANGED <<op, args, response, fetch_result, out, provider, brave_api_key,
                   client, request,
                   auth_vars, task_vars>>

\* search after the adapter: the response in the requested format, or the
\* error response.
SearchRespond ==
    /\ pc = "search_return"
    /\ out' = <<search_respond(results[1], args.q, args.format, provider)>>
    /\ pc' = "done"
    /\ UNCHANGED <<op, args, net, response, fetch_result, search_vars,
                   auth_vars, task_vars>>

NextSearch ==
    \/ Search
    \/ GetClient
    \/ AdapterPrepare
    \/ AdapterOpenSession
    \/ AdapterSend
    \/ AdapterResponse
    \/ SearchRespond

SpecSearch == InitSearch /\ [][NextSearch]_vars

(***************************************************************************)
(* The search operation: properties.                                       *)
(***************************************************************************)
\* The adapter's search has returned or raised.
AdapterReturned == op = "search" /\ pc \in {"search_return", "done"}

HasKey(obj, key) == \E m \in 1..Len(obj.items) : obj.items[m].k = key
Member(obj, key) == obj.items[CHOOSE m \in 1..Len(obj.items) : obj.items[m].k = key].v

\* The object of a JSON body that holds the result list: the body for
\* SearXNG, its "web" member for Brave.
Holder(adapter, body) ==
    IF adapter = "SearXNGClient" \/ body.t # "dict" THEN body
    ELSE IF HasKey(body, "web") THEN Member(body, "web")
    ELSE PyDict(<<>>)

ResultList(adapter, body) ==
    IF Holder(adapter, body).t = "dict" /\ HasKey(Holder(adapter, body), "results")
    THEN Member(Holder(adapter, body), "results")
    ELSE PyList(<<>>)

\* The body has the shape the adapter expects.
WellShaped(adapter, body) ==
    /\ body.t = "dict"
    /\ Holder(adapter, body).t = "dict"
    /\ ResultList(adapter, body).t = "list"
    /\ \A m \in 1..Len(ResultList(adapter, body).items) :
           ResultList(adapter, body).items[m].t = "dict"

\* The request was made and the backend did not answer with results:
\* the request failed, the status is not 200, the body could not be read or
\* parsed, or its shape is not the expected one.
BackendFailed ==
    /\ AdapterReturned
    /\ request # <<>>
    /\ \/ response = <<>>
       \/ response[1].status # 200
       \/ client[1].val = "DuckDuckGoClient" /\ ~response[1].text.ok
       \/ client[1].val # "DuckDuckGoClient" /\ ~response[1].json.ok
       \/ /\ client[1].val # "DuckDuckGoClient"
          /\ response[1].json.ok
          /\ ~WellShaped(client[1].val, response[1].json.val)

\* C2: search of each adapter returns a list and never raises, and a
\* non-200 status, a failed request, an unreadable or unparseable body and a
\* body of unexpected shape each give the empty list.
C2_AdapterSearchNeverRaises ==
    AdapterReturned =>
        /\ results[1].ok
        /\ BackendFailed => results[1].val = <<>>

C2_Witness ==
    /\ BackendFailed
    /\ client[1].val = "BraveSearchClient"
    /\ response # <<>>
    /\ response[1].status = 200
    /\ response[1].json = Ok(PyDict(<<[k |-> "web", v |-> PyNull]>>))
    /\ results = <<Ok(<<>>)>>

\* C3: get_client returns an adapter for every provider identifier and never
\* raises: searxng, duckduckgo and brave give their own adapter, any other
\* identifier (wrong case, misspelled, unknown) gives the SearXNG adapter.
C3_GetClientTotal ==
    client # <<>> =>
        /\ client[1].ok
        /\ client[1].val =
             CASE provider.value = "searxng" -> "SearXNGClient"
               [] provider.value = "duckduckgo" -> "DuckDuckGoClient"
               [] provider.value = "brave" -> "BraveSearchClient"
               [] OTHER -> "SearXNGClient"

C3_Witness ==
    /\ provider.value = "Brave"
    /\ client = <<Ok("SearXNGClient")>>

\* The title and the url of each result the backend answered with, in the
\* backend's order; empty when the backend did not answer with results.
BackendResults ==
    IF BackendFailed \/ response = <<>> THEN <<>>
    ELSE IF client[1].val = "DuckDuckGoClient"
    THEN [i \in 1..Len(response[1].text.val) |->
             <<DecodeEntities(Strip(response[1].text.val[i].title)),
               response[1].text.val[i].url>>]
    ELSE LET l == ResultList(client[1].val, response[1].json.val).items
         IN  [i \in 1..Len(l) |->
                 <<IF HasKey(l[i], "title") THEN Member(l[i], "title") ELSE PyEmptyStr,
                   IF HasKey(l[i], "url") THEN Member(l[i], "url") ELSE PyEmptyStr>>]

\* C6: the list search returns is a prefix of the backend's results in the
\* backend's order, and it is no longer than the count the caller asked for.
C6_ResultsArePrefixWithinCount ==
    AdapterReturned =>
        /\ results[1].ok
        /\ Len(results[1].val) <= args.max_results
        /\ Len(results[1].val) <= Len(BackendResults)
        /\ \A i \in 1..Len(results[1].val) :
               <<results[1].val[i].title, results[1].val[i].url>> = BackendResults[i]

\* C7: every JSON-mode response of search holds the result list, the query
\* and the provider name, an empty result list included.
C7_JsonResponseHasThreeFields ==
    (op = "search" /\ pc = "done" /\ args.format = "json" /\ out[1].status = 200) =>
        /\ {"results", "query", "provider"} \subseteq DOMAIN out[1].body
        /\ out[1].body.results = results[1].val
        /\ out[1].body.query = args.q

(***************************************************************************)
(* The Fetcher: classification of the body and failure results.            *)
(***************************************************************************)
\* The declared media type: the Content-Type header up to the first ';',
\* lower-cased.
DeclaredType == BeforeSemicolon(response[1].content_type)

\* The declared type is one of the types of the allow-list.
AllowListed == Len(DeclaredType) = 1 /\ DeclaredType[1] \in TEXT_CONTENT_TYPES

\* fetch_url has returned for a response of status 200 that passed the size
\* guard, so that the declared type decided what became of the body.
Classified ==
    /\ op \in {"read", "fetch"}
    /\ pc \in {"fetch_return", "done"}
    /\ response # <<>>
    /\ response[1].status = 200
    /\ \/ response[1].content_length.kind \in {"absent", "empty"}
       \/ /\ response[1].content_length.kind = "int"
          /\ response[1].content_length.val <= 10 * 1024 * 1024

\* fetch_url returned the plain-text notice of an unsupported type.
UnsupportedTypeNotice ==
    /\ fetch_result[1].ok
    /\ fetch_result[1].val # <<>>
    /\ fetch_result[1].val[2] = <<"text/plain">>
    /\ fetch_result[1].val[1] # <<>>
    /\ fetch_result[1].val[1][1].c = "Binary content type detected: "

\* C14: fetch_url reads the body as text exactly when the declared type is a
\* member of the allow-list; any other declared type (an absent one, or one
\* that only contains an allow-listed type) gives the unsupported-type
\* notice and the body is never read.
C14_BodyReadIffAllowListed ==
    Classified =>
        /\ net.body_read <=> AllowListed
        /\ ~AllowListed => UnsupportedTypeNotice

\* The call has a URL with a scheme and a host.
ValidUrlCall ==
    /\ op \in {"read", "fetch"}
    /\ urlparse(args.url).scheme # ""
    /\ urlparse(args.url).netloc # <<>>

\* The request failed, the status is not 2xx, or the Content-Length of a
\* response of status 200 is not a number.
FetchFailure ==
    /\ fetch_result # <<>>
    /\ \/ response = <<>>
       \/ response[1].status \notin 200..299
       \/ /\ response[1].status = 200
          /\ response[1].content_length.kind = "malformed"

BraveWithoutKey ==
    /\ op = "search"
    /\ client # <<>>
    /\ client[1] = Ok("BraveSearchClient")
    /\ brave_api_key \in {<<>>, <<"">>}

\* C16: with no API key configured, search of the Brave adapter returns the
\* empty list, and no session is opened and no request is sent.
C16_NoKeyNoNetwork ==
    BraveWithoutKey =>
        /\ net.opened = 0 /\ net.sent = 0
        /\ request = <<>>
        /\ pc \in {"adapter_prepare", "search_return", "done"}
        /\ pc # "adapter_prepare" => results = <<Ok(<<>>)>>

C16_Witness ==
    /\ BraveWithoutKey
    /\ pc = "done"
    /\ results = <<Ok(<<>>)>>
    /\ net.opened = 0 /\ net.sent = 0

\* The Brave adapter has built the parameters of its request.
BraveRequest ==
    /\ op = "search"
    /\ client # <<>>
    /\ client[1] = Ok("BraveSearchClient")
    /\ request # <<>>

\* C17: the freshness parameter of the Brave request is pd, pw, pm, py for
\* time_range day, week, month, year, and the request has no freshness
\* parameter at all for any other time_range.
C17_FreshnessMappedOrOmitted ==
    BraveRequest =>
        LET freshness == {p \in request[1] : p[1] = "freshness"}
        IN  CASE args.time_range = <<"day">> -> freshness = {<<"freshness", "pd">>}
              [] args.time_range = <<"week">> -> freshness = {<<"freshness", "pw">>}
              [] args.time_range = <<"month">> -> freshness = {<<"freshness", "pm">>}
              [] args.time_range = <<"year">> -> freshness = {<<"freshness", "py">>}
              [] OTHER -> freshness = {}

(***************************************************************************)
(* Fetch calls and search calls together: the requests they send.          *)
(***************************************************************************)
NextCalls ==
    \/ ReadUrl
    \/ FetchUrl
    \/ FetchValidate
    \/ FetchOpenSession
    \/ FetchGet
    \/ FetchResponse
    \/ FetchText
    \/ ReadRespond
    \/ Search
    \/ GetClient
    \/ AdapterPrepare
    \/ AdapterOpenSession
    \/ AdapterSend
    \/ AdapterResponse
    \/ SearchRespond

SpecCalls == InitSearch /\ [][NextCalls]_vars

\* fetch_url or the adapter's search has returned or raised.
CallReturned ==
    /\ op \in {"read", "fetch", "search"}
    /\ pc \in {"fetch_return", "search_return", "done"}

\* The call returns before it reaches its request: the URL is invalid, or
\* the Brave adapter has no key.
ShortCircuited == LacksSchemeOrHost \/ BraveWithoutKey

\* The one request of the call failed: no response, or a status other
\* than 200.
RequestFailed ==
    /\ net.sent >= 1
    /\ response = <<>> \/ response[1].status # 200

\* C18 as stated: each fetch call and each adapter search call issues
\* exactly one outbound request.
C18_ExactlyOneRequest == CallReturned => net.sent = 1

\* C18 amended: a call never issues more than one request and never opens
\* more than one session; it issues exactly one unless it returns before
\* its request (invalid URL, Brave adapter without key), and then none; when
\* the request fails the call ends with its failure result (None, or the
\* empty list) and the request is not sent again.
C18_AtMostOneRequestNoRetry ==
    /\ net.sent <= 1
    /\ net.opened <= 1
    /\ CallReturned => (net.sent = 1 <=> ~ShortCircuited)
    /\ (CallReturned /\ RequestFailed) =>
          IF op = "search" THEN results = <<Ok(<<>>)>>
          ELSE fetch_result = <<Ok(<<>>)>>

C18_Witness ==
    /\ op = "search"
    /\ pc = "done"
    /\ response # <<>>
    /\ response[1].status = 500
    /\ net.sent = 1
    /\ results = <<Ok(<<>>)>>

(***************************************************************************)
(* HTMLCleaner: what clean_html removes.                                   *)
(***************************************************************************)
\* The symbols that open one of the elements clean_html is to remove, and
\* the symbol that opens a comment.
UnwantedOpenings ==
    {RemovedElements[i].open : i \in 1..Len(RemovedElements)}
    \cup VoidRemoved \cup {"<!--"}

\* C19: the tree clean_html returns holds none of the elements script,
\* style, svg, iframe, form, noscript, canvas, video, audio, source and no
\* comment, and no text of such an element or comment is in the Markdown
\* process_html produces.
C19_UnwantedRemoved ==
    /\ (op = "clean_html" /\ pc = "done") =>
          \A i \in 1..Len(out[1].val) : out[1].val[i].c \notin UnwantedOpenings
    /\ (op = "process_html" /\ pc = "done" /\ out[1].ok) =>
          \A i \in 1..Len(out[1].val.content) : out[1].val.content[i].c # "secret"

(***************************************************************************)
(* HTMLCleaner: table conversion.                                          *)
(***************************************************************************)
\* _convert_tables has returned for a document that is one table.
TableConverted == op = "convert_tables" /\ pc = "done"

\* The lines of the Markdown table in what _convert_tables returned; none
\* when the table was left as it was.
EmittedLines ==
    IF out[1].val # <<>> /\ out[1].val[1].c = "<div>"
    THEN SplitLines(SubSeq(out[1].val, 2, Len(out[1].val) - 1))
    ELSE <<>>

\* The row of the table that is to supply the header cells: the row of
\* <thead>, or the first row when there is no <thead>; <<>> when none.
HeaderSource ==
    IF args.table.head # <<>> THEN args.table.head
    ELSE IF args.table.rows # <<>> THEN <<args.table.rows[1]>>
    ELSE <<>>

\* The cells the header is extracted from: the <th> cells of the row of
\* <thead>, or the cells of the first row of a table without <thead>.
HeaderCells ==
    IF HeaderSource = <<>> THEN <<>>
    ELSE IF args.table.head # <<>> /\ HeaderSource[1].kind # "th" THEN <<>>
    ELSE HeaderSource[1].cells

\* The rows other than the one that is the header source, those without
\* cells left out.
OtherRows ==
    SelectSeq(IF args.table.head # <<>> THEN args.table.rows ELSE Tail(args.table.rows),
              LAMBDA r : r.cells # <<>>)

\* The line of a row whose cells are the given symbols.
LineOf(cells) ==
    Text(<<"| ">>) \o Join([i \in 1..Len(cells) |-> Text(<<cells[i]>>)], " | ")
    \o Text(<<" |">>)

\* C11: the row that supplies the header cells appears once, as the header
\* line, and never again as a body row; every other row is emitted exactly
\* once as a body row.
C11_HeaderRowConsumed ==
    (TableConverted /\ HeaderCells # <<>>) =>
        EmittedLines =
            <<LineOf(HeaderCells), LineOf([i \in 1..Len(HeaderCells) |-> "---"])>>
            \o [i \in 1..Len(OtherRows) |-> LineOf(OtherRows[i].cells)]

\* C12: a table from which no header cells can be extracted gives no
\* Markdown at all.
C12_NoHeaderNoOutput ==
    (TableConverted /\ HeaderCells = <<>>) =>
        /\ EmittedLines = <<>>
        /\ \A i \in 1..Len(out[1].val) : out[1].val[i].c \notin {"| ", " | ", " |"}

\* C13: when a table has a header row, the separator line has as many
\* '---' columns as the header line has cells.
C13_SeparatorMatchesHeader ==
    (TableConverted /\ HeaderCells # <<>>) =>
        /\ Len(EmittedLines) >= 2
        /\ EmittedLines[1] = LineOf(HeaderCells)
        /\ EmittedLines[2] = LineOf([i \in 1..Len(HeaderCells) |-> "---"])
        /\ Cardinality({i \in 1..Len(EmittedLines[2]) : EmittedLines[2][i].c = "---"})
             = Len(HeaderCells)

C13_Witness ==
    /\ TableConverted
    /\ args.table.head # <<>>
    /\ HeaderCells = <<"x", "y">>
    /\ Len(EmittedLines) >= 2
    /\ EmittedLines[2] = Text(<<"| ", "---", " | ", "---", " |">>)

(***************************************************************************)
(* HTMLCleaner: the table after the later passes.                          *)
(***************************************************************************)
\* process_html has returned a document for a page that holds a table.
TablePageProcessed ==
    /\ op = "process_html"
    /\ pc = "done"
    /\ out[1].ok
    /\ FindElement(args.content, "<table>", "</table>") # <<>>

\* The lines the table pass emits for the table of the page.
TablePassLines ==
    markdown_table(FindElement(args.content, "<table>", "</table>")[1].inner)

\* The lines of the final Markdown hold the given lines, one after the
\* other, each as a line of its own.
HoldsLines(content, lines) ==
    \E k \in 0..Len(SplitLines(content)) :
        /\ k + Len(lines) <= Len(SplitLines(content))
        /\ \A i \in 1..Len(lines) : SplitLines(content)[k + i] = lines[i]

\* C20: the Markdown table of the table pass is in the final output
\* unchanged, its header line, separator line and body rows each a line of
\* its own, wherever the table is nested in the document.
C20_TableSurvivesLaterPasses ==
    TablePageProcessed => HoldsLines(out[1].val.content, TablePassLines)

(***************************************************************************)
(* WebFetcher: the status of the response.                                 *)
(***************************************************************************)
\* fetch_url has settled a response on its status, size guard and
\* classification alone: nothing was raised by the transport or while the
\* body was read, and the Content-Length, if any, is a number.
SettledOnResponse ==
    /\ op \in {"read", "fetch"}
    /\ fetch_result # <<>>
    /\ response # <<>>
    /\ response[1].content_length.kind # "malformed"
    /\ ~net.body_read

\* The failure result of fetch_url.
StatusFailure == fetch_result = <<Ok(<<>>)>>

\* C23: a response is a status failure exactly when its status is outside
\* 200..299; every 2xx response without a transport error gives a content
\* outcome and not the failure result.
C23_StatusFailureIffNot2xx ==
    SettledOnResponse => (StatusFailure <=> response[1].status \notin 200..299)

(***************************************************************************)
(* search: the provider name of the JSON response.                         *)
(***************************************************************************)
\* The names that name an adapter: the value of its SearchProvider member
\* and the text of the member itself.
AdapterNames(adapter) ==
    IF adapter = "SearXNGClient" THEN {"searxng", "SearchProvider.SEARXNG"}
    ELSE IF adapter = "DuckDuckGoClient"
    THEN {"duckduckgo", "SearchProvider.DUCKDUCKGO"}
    ELSE {"brave", "SearchProvider.BRAVE"}

\* search has answered in JSON with a provider name.
ProviderReported ==
    /\ op = "search"
    /\ pc = "done"
    /\ args.format = "json"
    /\ out[1].status = 200
    /\ "provider" \in DOMAIN out[1].body

\* C25: the provider name of a JSON response names the adapter that
\* performed the search, also when the configured identifier is not
\* recognized and get_client fell back to the SearXNG adapter.
C25_ProviderNamesAdapter ==
    ProviderReported => out[1].body.provider \in AdapterNames(client[1].val)

(***************************************************************************)
(* The DuckDuckGo adapter: the snippet of each result.                     *)
(***************************************************************************)
\* The DuckDuckGo adapter has parsed a page of result blocks.
DdgPageParsed ==
    /\ AdapterReturned
    /\ client[1].val = "DuckDuckGoClient"
    /\ response # <<>>
    /\ response[1].status = 200
    /\ response[1].text.ok
    /\ results[1].ok

\* The snippet of one result block, cleaned as the adapter cleans it: empty
\* when the block has no snippet the pattern matches.
BlockSnippet(block) ==
    IF block.snippet = <<>> THEN <<>>
    ELSE DecodeEntities(Strip(TagsToSpaces(block.snippet[1])))

\* C26: the snippet of each result of the DuckDuckGo adapter is the snippet
\* of the result block its title and URL come from; a block without a
\* snippet gives an empty snippet and the snippets of later blocks are not
\* moved onto earlier results.
C26_SnippetFromSameBlock ==
    DdgPageParsed =>
        \A i \in 1..Len(results[1].val) :
            /\ results[1].val[i].url = response[1].text.val[i].url
            /\ results[1].val[i].snippet = BlockSnippet(response[1].text.val[i])

(***************************************************************************)
(* HTMLCleaner: which elements a conversion pass takes.                    *)
(***************************************************************************)
\* process_html has returned a document.
PageProcessed ==
    /\ op = "process_html"
    /\ pc = "done"
    /\ out[1].ok

\* What html_to_markdown hands to _convert_content for the page.
PassInput ==
    LET soup == clean_html(args.content)
        body == FindElement(soup, "<body>", "</body>")
    IN  convert_tables(IF body # <<>>
                       THEN Text(<<"<body>">>) \o body[1].inner \o Text(<<"</body>">>)
                       ELSE soup)

\* The conversion when each pass takes only the elements of its own name:
\* <p> for the paragraph pass, <pre> for the code-block pass, <b> for the
\* bold pass.
OwnNameContent(html_content) ==
    CollapseNewlines(StripTags(
        ConvertElement(
            ConvertElement(
                ConvertElement(ConvertHeadings(html_content),
                               {"<p>"}, "</p>", <<>>, Rep("\n", 2)),
                {"<pre>"}, "</pre>",
                Text(<<Fence, "\n">>), Text(<<"\n", Fence>>) \o Rep("\n", 2)),
            {"<b>"}, "</b>", Text(<<"**">>), Text(<<"**">>))))

\* C22: each pass of _convert_content transforms only the elements of its
\* own tag name; a <pre> is never the opening of the paragraph pass and a
\* <body> or <br/> never the opening of the bold pass, so the Markdown of a
\* page is the one own-name matching gives.
C22_PassTakesOwnTagOnly ==
    PageProcessed => out[1].val.content = Strip(OwnNameContent(PassInput))

(***************************************************************************)
(* API-key authentication (src/app/core/security.py): the dependency of    *)
(* both routes, resolved before the route handler is called.               *)
(***************************************************************************)
\* A key is one of settings.security.api_keys.
IsConfiguredKey(key, keys) == \E i \in 1..Len(keys) : keys[i] = key

\* get_api_key with the membership test left out.
get_api_key_presence_only(header, settings_security) ==
    IF ~settings_security.auth_enabled THEN Ok(<<>>)
    ELSE IF ~Truthy(header)
    THEN [ok |-> FALSE, exc |-> "HTTPException", status_code |-> 401,
          detail |-> "API key is missing"]
    ELSE Ok(header)

\* get_api_key: None when authentication is disabled; 401 for a missing
\* (absent or empty) header and for a key that is not configured; else the key.
get_api_key(header, settings_security) ==
    IF ~settings_security.auth_enabled THEN Ok(<<>>)
    ELSE IF ~Truthy(header)
    THEN [ok |-> FALSE, exc |-> "HTTPException", status_code |-> 401,
          detail |-> "API key is missing"]
    ELSE IF ~IsConfiguredKey(header[1], settings_security.api_keys)
    THEN [ok |-> FALSE, exc |-> "HTTPException", status_code |-> 401,
          detail |-> "Invalid API key"]
    ELSE Ok(header)

\* The X-API-Key header of a request: absent, empty, or a key.
Headers == {<<>>, <<"">>, <<"k1">>, <<"default">>, <<"bad">>}

\* The security settings the environment can give.
SecurityConfigs ==
    {security_config(keys, "default", enabled) :
        keys \in {<<>>, <<"k1">>}, enabled \in BOOLEAN}

\* A request for /read or /search has arrived and its dependency is not
\* resolved yet.
InitAuth ==
    /\ pc = "request"
    /\ op = "none"
    /\ args = <<>>
    /\ net = [opened |-> 0, open |-> 0, sent |-> 0, body_read |-> FALSE]
    /\ response = <<>>
    /\ fetch_result = <<>>
    /\ out = <<>>
    /\ client = <<>>
    /\ request = <<>>
    /\ results = <<>>
    /\ provider = [value |-> "duckduckgo", is_enum |-> TRUE]
    /\ brave_api_key = <<>>
    /\ security \in SecurityConfigs
    /\ api_key_header \in Headers
    /\ OneCall

\* Depends(get_api_key): the handler is called when it returns; the request
\* is answered with the HTTPException when it raises.
GetApiKey ==
    /\ pc = "request"
    /\ LET key == get_api_key(api_key_header, security)
       IN  IF key.ok
           THEN /\ pc' = "idle"
                /\ UNCHANGED <<op, out>>
           ELSE /\ pc' = "done"
                /\ op' = "get_api_key"
                /\ out' = <<[status |-> key.status_code, body |-> <<key.detail>>]>>
    /\ UNCHANGED <<args, net, response, fetch_result, search_vars, auth_vars,
                   task_vars>>

NextAuth ==
    \/ GetApiKey
    \/ ReadUrl
    \/ FetchValidate
    \/ FetchOpenSession
    \/ FetchGet
    \/ FetchResponse
    \/ FetchText
    \/ ReadRespond
    \/ Search
    \/ GetClient
    \/ AdapterPrepare
    \/ AdapterOpenSession
    \/ AdapterSend
    \/ AdapterResponse
    \/ SearchRespond

SpecAuth == InitAuth /\ [][NextAuth]_vars

\* Authentication is enabled and the header is missing or no configured key.
Unauthorized ==
    /\ security.auth_enabled
    /\ \/ api_key_header \in {<<>>, <<"">>}
       \/ ~IsConfiguredKey(api_key_header[1], security.api_keys)

\* The dependency has been resolved.
Resolved == pc # "request"

\* The request was answered with HTTP 401 and nothing went out.
Rejected ==
    /\ pc = "done"
    /\ out[1].status = 401
    /\ net.opened = 0
    /\ net.sent = 0

\* C24: with authentication enabled, a request whose X-API-Key header is
\* missing or is not a configured key is answered with 401 and causes no
\* outbound request; with authentication disabled, and with a configured
\* key, the request passes to its handler.
C24_UnauthorizedIsRejected ==
    Resolved => (Rejected <=> Unauthorized)

\* A request with a key that is not configured has been rejected.
C24_Witness ==
    /\ Rejected
    /\ security.auth_enabled
    /\ api_key_header = <<"bad">>

(***************************************************************************)
(* Concurrent requests.  Each request is a coroutine on one event loop:    *)
(* the running call holds its state in the variables of the operations     *)
(* above, a suspended call holds its own in tasks.  The configuration is   *)
(* the only state the calls have in common.                                *)
(***************************************************************************)
\* The state of the running call.
Frame ==
    [pc |-> pc, op |-> op, args |-> args, net |-> net, response |-> response,
     fetch_result |-> fetch_result, out |-> out, client |-> client,
     request |-> request, results |-> results, api_key_header |-> api_key_header]

\* What a call resumes with, were the response kept in one place for all
\* calls.
resumed_shared_response(frame) == [frame EXCEPT !.response = response]

\* What a call resumes with: the locals of its own coroutine.
resumed(frame) == frame

\* Where a call awaits: the session, the request, the body.
AwaitPoints ==
    {"fetch_open", "fetch_get", "fetch_text",
     "adapter_open", "adapter_send", "adapter_response"}

\* The event loop: the running call is suspended at an await, or has
\* answered, and another call starts or resumes.
Switch ==
    \E t \in TaskIds \ {current} :
        /\ pc \in AwaitPoints \cup {"done"}
        /\ tasks' = [tasks EXCEPT ![current] = Frame, ![t] = IdleFrame]
        /\ current' = t
        /\ pc' = resumed(tasks[t]).pc
        /\ op' = resumed(tasks[t]).op
        /\ args' = resumed(tasks[t]).args
        /\ net' = resumed(tasks[t]).net
        /\ response' = resumed(tasks[t]).response
        /\ fetch_result' = resumed(tasks[t]).fetch_result
        /\ out' = resumed(tasks[t]).out
        /\ client' = resumed(tasks[t]).client
        /\ request' = resumed(tasks[t]).request
        /\ results' = resumed(tasks[t]).results
        /\ api_key_header' = resumed(tasks[t]).api_key_header
        /\ UNCHANGED <<provider, brave_api_key, security>>

\* The requests and the remote answers of the concurrent runs: one valid
\* and one invalid URL, one query, and a few answers of each kind.
SmallFetchResponses ==
    {[status |-> st, content_type |-> ct, content_length |-> cl] :
        st \in {200, 404}, ct \in {<<"text/html">>, <<"image/png">>},
        cl \in {[kind |-> "absent"], [kind |-> "malformed"]}}

SmallBodies ==
    {Text(<<"a">>), Text(<<"<title>", "T", "</title>", "<h1>", "H", "</h1>">>)}

SmallJsonBodies ==
    {PyDict(<<[k |-> "web",
               v |-> PyDict(<<[k |-> "results", v |-> Entries(1, "description")]>>)]>>),
     PyDict(<<>>), PyNull}

SmallSearchResponse(resp) ==
    /\ resp.text.ok => Len(resp.text.val) <= 1
    /\ ~resp.text.ok => resp.text.exc = "ClientPayloadError"
    /\ resp.json.ok => resp.json.val \in SmallJsonBodies
    /\ ~resp.json.ok => resp.json.exc \in {"JSONDecodeError", "ContentTypeError"}

SmallCall ==
    /\ op = "read" =>
          /\ args.url \in {<<"https", ":", "//", "example.com">>, <<"https", ":", "//">>}
          /\ args.format = "json"
    /\ op = "search" =>
          /\ args.max_results = 1
          /\ args.language = <<>>
          /\ args.time_range = <<>>
          /\ args.format = "json"
    /\ (op = "read" /\ response # <<>>) => response[1] \in SmallFetchResponses
    /\ (op = "search" /\ response # <<>>) => SmallSearchResponse(response[1])
    /\ (op = "read" /\ net.body_read /\ fetch_result[1].ok) =>
          \/ fetch_result[1].val = <<>>
          \/ fetch_result[1].val[2] = <<"text/plain">>
          \/ fetch_result[1].val[1] \in SmallBodies

\* A step of the running call, on the requests and answers above.
CallStep ==
    \/ ReadUrl /\ SmallCall'
    \/ FetchValidate /\ SmallCall'
    \/ FetchOpenSession /\ SmallCall'
    \/ FetchGet /\ SmallCall'
    \/ FetchResponse /\ SmallCall'
    \/ FetchText /\ SmallCall'
    \/ ReadRespond /\ SmallCall'
    \/ Search /\ SmallCall'
    \/ GetClient /\ SmallCall'
    \/ AdapterPrepare /\ SmallCall'
    \/ AdapterOpenSession /\ SmallCall'
    \/ AdapterSend /\ SmallCall'
    \/ AdapterResponse /\ SmallCall'
    \/ SearchRespond /\ SmallCall'

InitConcurrent ==
    /\ Idle
    /\ provider \in {[value |-> "duckduckgo", is_enum |-> TRUE],
                     [value |-> "brave", is_enum |-> FALSE]}
    /\ brave_api_key \in {<<>>, <<"key">>}
    /\ security = security_config(<<>>, "default", TRUE)
    /\ OneCall

NextConcurrent ==
    \/ CallStep
    \/ Switch

SpecConcurrent == InitConcurrent /\ [][NextConcurrent]_vars

\* The calls that have started: the running one and the suspended ones.
Frames == {Frame} \cup {tasks[t] : t \in TaskIds \ {current}}

\* Every session the call opened is closed once it has returned.
SessionsClosed(f) ==
    f.pc \in {"fetch_return", "search_return", "done"} => f.net.open = 0

\* What the call holds of the network is what it received itself: a
\* response only after its own request, an adapter only from get_client.
OwnNetwork(f) ==
    /\ f.response # <<>> => f.net.sent = 1
    /\ f.net.sent <= f.net.opened
    /\ f.client # <<>> => f.client[1] = get_client(provider)

\* The result of a read call is the one fetch_url and read_url give for its
\* own URL and the response it received.
OwnReadResult(f) ==
    /\ f.fetch_result # <<>> =>
          IF url_is_invalid(f.args.url)
          THEN f.fetch_result[1] = Raise("ValueError") /\ f.net.opened = 0
          ELSE IF f.response = <<>>
          THEN f.fetch_result[1] = Ok(<<>>)
          ELSE LET r == fetch_response(f.response[1])
               IN  IF r.do = "return" THEN f.fetch_result[1] = Ok(r.val)
                   ELSE IF r.do = "raise" THEN f.fetch_result[1] = fetch_handle(r.exc)
                   ELSE /\ f.net.body_read
                        /\ f.fetch_result[1].ok
                        /\ \/ f.fetch_result[1].val = <<>>
                           \/ f.fetch_result[1].val[2] \in {r.content_type, <<"text/plain">>}
    /\ f.pc = "done" =>
          f.out[1] = read_url_respond(f.fetch_result[1], f.args.url, f.args.format)

\* The result of a search call is the one its adapter and search give for
\* its own arguments and the response it received.
OwnSearchResult(f) ==
    /\ f.results # <<>> =>
          IF no_api_key(f.client[1].val, brave_api_key) \/ f.response = <<>>
          THEN f.results[1] = Ok(<<>>)
          ELSE f.results[1] =
                   adapter_response(f.client[1].val, f.response[1], f.args.max_results)
    /\ f.pc = "done" =>
          f.out[1] = search_respond(f.results[1], f.args.q, f.args.format, provider)

\* The result of a call is the result of the same call run alone.
OwnResult(f) ==
    /\ f.op = "read" => OwnReadResult(f)
    /\ f.op = "search" => OwnSearchResult(f)

\* A step of the running call changes no suspended call, and no step
\* writes the configuration.
Isolated ==
    /\ current' = current => tasks' = tasks
    /\ UNCHANGED <<provider, brave_api_key, security>>

\* C21: in every interleaving of read and search requests each call has
\* the state and the result it has when run alone against the same remote
\* responses, no call changes what another call reads, and every session a
\* call opened is closed when the call returns, on each path.
C21_CallsDoNotInterfere ==
    /\ [](\A f \in Frames : SessionsClosed(f) /\ OwnNetwork(f) /\ OwnResult(f))
    /\ [][Isolated]_vars

\* A read call is suspended while it awaits its body, its session open, and
\* a search call that started after it has sent its request and answered.
C21_Witness ==
    /\ tasks["t1"].op = "read"
    /\ tasks["t1"].pc = "fetch_text"
    /\ tasks["t1"].net.open = 1
    /\ op = "search"
    /\ pc = "done"
    /\ net.sent = 1

=============================================================================
